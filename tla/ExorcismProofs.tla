--------------------------- MODULE ExorcismProofs ---------------------------
(***************************************************************************)
(* What the minimiser of module Exorcism does, for every number of inputs, *)
(* every word width and every list of cubes.                               *)
(***************************************************************************)
EXTENDS ExorcismInv, Cube32Lemmas, SequenceTheorems

-----------------------------------------------------------------------------
(* The linked cubes. *)

\* The two cubes of a pair in the order of their values.
LEMMA SourcesAreCubes ==
  ASSUME NEW a \in Cubes, NEW b \in Cubes
  PROVE  LET s == Sources(a, b)
         IN  /\ {s[0], s[1]} = {a, b}
             /\ s[2] = Cube(SymDiff(a.mask, b.mask), Bits \ (a.polarity \cup b.polarity))
  BY DEF Sources, SymDiff

\* Position v of exorlink's result: a digit of the row picks its source.
Rank(diff, v) == Cardinality({q \in diff : q < v})

\* Each word of a linked cube, position by position.
LEMMA ExorlinkFields ==
  ASSUME NEW a \in Cubes, NEW b \in Cubes, NEW row, NEW v \in Vars,
         v \in difference(a, b) => row[1 + Rank(difference(a, b), v)] \in 0 .. 2
  PROVE  LET e   == exorlink(a, b, row)
             src == IF v \in difference(a, b)
                      THEN Sources(a, b)[row[1 + Rank(difference(a, b), v)]]
                      ELSE Sources(a, b)[0]
         IN  /\ v \in e.mask <=> v \in src.mask
             /\ v \in e.polarity <=> v \in src.polarity
  BY DEF exorlink, Rank, Cube

\* A row with digits 0, 1 and 2 for the positions where the pair differs.
Digits(a, b, row) ==
  \A v \in difference(a, b) : row[1 + Rank(difference(a, b), v)] \in 0 .. 2

\* exorlink() makes cubes over the inputs.
LEMMA ExorlinkIsCube ==
  ASSUME NEW a \in Cubes, NEW b \in Cubes, NEW row, Digits(a, b, row)
  PROVE  exorlink(a, b, row) \in Cubes
<1> DEFINE e == exorlink(a, b, row)
           d == difference(a, b)
           S(v) == Sources(a, b)[row[1 + Rank(d, v)]]
           m == (Sources(a, b)[0].mask \ d) \cup {v \in d : v \in S(v).mask}
           p == (Sources(a, b)[0].polarity \ d) \cup {v \in d : v \in S(v).polarity}
<1>1. e = Cube(m, p)
  BY DEF exorlink, Rank
<1>2. d \in SUBSET Vars /\ d = SymDiff(a.polarity, b.polarity) \cup SymDiff(a.mask, b.mask)
  BY DifferenceIsWord DEF difference
<1>3. Sources(a, b)[0] \in Cubes /\ Sources(a, b)[1] \in Cubes
  <2>1. {Sources(a, b)[0], Sources(a, b)[1]} = {a, b}
    BY ONLY SourcesAreCubes, a \in Cubes, b \in Cubes
  <2> QED  BY <2>1
<1>4. m \in SUBSET Vars
  <2>1. Sources(a, b)[0].mask \in SUBSET Vars
    BY <1>3, CubeFields
  <2>2. d \in SUBSET Vars
    BY <1>2
  <2> HIDE DEF d, S
  <2> QED  BY <2>1, <2>2
<1>5. ASSUME NEW v \in p  PROVE v \in m
  <2>1. CASE v \notin d
    BY <1>3, <1>5, <2>1, CubeFields
  <2>2. CASE v \in d /\ row[1 + Rank(d, v)] # 2
    <3>1. row[1 + Rank(d, v)] \in {0, 1}
      BY <2>2 DEF Digits
    <3>2. S(v) \in Cubes
      BY <1>3, <3>1
    <3> QED  BY <1>5, <2>2, <3>2, CubeFields
  <2>3. CASE v \in d /\ row[1 + Rank(d, v)] = 2
    <3>1. S(v) = Cube(SymDiff(a.mask, b.mask), Bits \ (a.polarity \cup b.polarity))
      BY <2>3, SourcesAreCubes
    <3>2. v \notin a.polarity /\ v \notin b.polarity
      BY <1>5, <2>3, <3>1 DEF Cube
    <3>3. v \in SymDiff(a.mask, b.mask)
      BY <1>2, <2>3, <3>2 DEF SymDiff
    <3> QED  BY <2>3, <3>1, <3>3 DEF Cube
  <2> QED  BY <2>1, <2>2, <2>3
<1> QED  BY <1>1, <1>4, <1>5, CubeIntro

\* What exorlink takes at position v agrees with a point as the source does;
\* elsewhere the result agrees as both cubes of the pair do.
LEMMA ExorlinkAgrees ==
  ASSUME NEW a \in Cubes, NEW b \in Cubes, NEW row, Digits(a, b, row),
         NEW v \in Vars, NEW x
  PROVE  LET A0 == Agrees(Sources(a, b)[0], v, x)
             A1 == Agrees(Sources(a, b)[1], v, x)
             Ae == Agrees(exorlink(a, b, row), v, x)
             k  == row[1 + Rank(difference(a, b), v)]
         IN  /\ v \notin difference(a, b) => (Ae <=> A0) /\ (A1 <=> A0)
             /\ v \in difference(a, b) /\ k = 0 => (Ae <=> A0)
             /\ v \in difference(a, b) /\ k = 1 => (Ae <=> A1)
             /\ v \in difference(a, b) /\ k = 2 => (Ae <=> (A0 <=> ~ A1))
<1> DEFINE d == difference(a, b)
           k == row[1 + Rank(d, v)]
           s == Sources(a, b)
           e == exorlink(a, b, row)
<1>1. v \in d => k \in 0 .. 2
  BY DEF Digits
<1>2. /\ {s[0], s[1]} = {a, b}
      /\ s[2] = Cube(SymDiff(a.mask, b.mask), Bits \ (a.polarity \cup b.polarity))
  BY SourcesAreCubes
<1>3. e \in Cubes /\ s[0] \in Cubes /\ s[1] \in Cubes
  <2>1. s[0] \in {a, b} /\ s[1] \in {a, b}
    BY <1>2
  <2> QED  BY <2>1, ExorlinkIsCube
<1>4. LET src == IF v \in d THEN s[k] ELSE s[0]
      IN  /\ v \in e.mask <=> v \in src.mask
          /\ v \in e.polarity <=> v \in src.polarity
  BY <1>1, ExorlinkFields
<1>5. difference(s[0], s[1]) = d \/ s[0] = s[1]
  BY <1>2, DifferenceIsWord
<1>6. CASE v \notin d
  <2>1. Agrees(e, v, x) <=> Agrees(s[0], v, x)
    BY <1>4, <1>6 DEF Agrees
  <2>2. Agrees(s[1], v, x) <=> Agrees(s[0], v, x)
    BY <1>3, <1>5, <1>6, SameLiteral
  <2> QED  BY <1>6, <2>1, <2>2
<1>7. CASE v \in d /\ k \in {0, 1}
  BY <1>4, <1>7 DEF Agrees
<1>8. CASE v \in d /\ k = 2
  <2>1. /\ v \in e.mask <=> v \in SymDiff(a.mask, b.mask)
        /\ v \in e.polarity <=> v \in Bits \ (a.polarity \cup b.polarity)
    BY <1>2, <1>4, <1>8 DEF Cube
  <2>2. Agrees(e, v, x) <=> (Agrees(a, v, x) <=> ~ Agrees(b, v, x))
    BY <1>3, <1>8, <2>1, ThirdLiteral
  <2>3. (s[0] = a /\ s[1] = b) \/ (s[0] = b /\ s[1] = a)
    BY <1>2
  <2> QED  BY <1>8, <2>2, <2>3
<1> QED  BY <1>1, <1>6, <1>7, <1>8

-----------------------------------------------------------------------------
(* The positions of the differences, in order. *)

\* A pair at distance 2 differs in a lower and a higher position.
LEMMA OrderTwo ==
  ASSUME NEW D \in SUBSET Nat, IsFiniteSet(D), Cardinality(D) = 2
  PROVE  \E p, q \in Nat : D = {p, q} /\ p < q /\ Rank(D, p) = 0 /\ Rank(D, q) = 1
<1>0. D # {}
  BY FS_EmptySet
<1>1. PICK u \in D : TRUE
  BY <1>0
<1>2. IsFiniteSet(D \ {u}) /\ Cardinality(D \ {u}) = 1
  BY <1>1, FS_RemoveElement
<1>3. PICK v : D \ {u} = {v}
  BY <1>2, FS_Singleton
<1>4. PICK p \in D, q \in D : D = {p, q} /\ p < q
  <2>1. v \in D /\ u # v /\ D = {u, v}
    BY <1>1, <1>3
  <2>2. u < v \/ v < u
    BY <1>1, <2>1
  <2>3. D = {v, u}
    BY <2>1
  <2> QED  BY <1>1, <2>1, <2>2, <2>3
<1>5. {r \in D : r < p} = {} /\ {r \in D : r < q} = {p}
  BY <1>4
<1>6. Cardinality({}) = 0 /\ Cardinality({p}) = 1
  BY FS_EmptySet, FS_Singleton
<1>7. Rank(D, p) = 0 /\ Rank(D, q) = 1
  BY <1>5, <1>6 DEF Rank
<1> QED  BY <1>4, <1>7

\* A pair at distance 3 differs in a low, a middle and a high position.
LEMMA OrderThree ==
  ASSUME NEW D \in SUBSET Nat, IsFiniteSet(D), Cardinality(D) = 3
  PROVE  \E p, q, r \in Nat :
           /\ D = {p, q, r} /\ p < q /\ q < r
           /\ Rank(D, p) = 0 /\ Rank(D, q) = 1 /\ Rank(D, r) = 2
<1>0. D # {}
  BY FS_EmptySet
<1>1. PICK u \in D : TRUE
  BY <1>0
<1>2. IsFiniteSet(D \ {u}) /\ Cardinality(D \ {u}) = 2
  BY <1>1, FS_RemoveElement
<1>3. PICK v \in Nat, w \in Nat : D \ {u} = {v, w} /\ v < w
  BY <1>2, OrderTwo
<1>4. PICK p \in D, q \in D, r \in D : D = {p, q, r} /\ p < q /\ q < r
  <2>1. /\ u \in Nat /\ u \in D /\ v \in D /\ w \in D
        /\ u # v /\ u # w /\ D = {u, v, w}
    BY <1>1, <1>3
  <2>2. CASE u < v
    BY <1>3, <2>1, <2>2
  <2>3. CASE v < u /\ u < w
    <3>1. D = {v, u, w}
      BY <2>1
    <3> QED  BY <2>1, <2>3, <3>1
  <2>4. CASE w < u
    <3>1. D = {v, w, u}
      BY <2>1
    <3> QED  BY <1>3, <2>1, <2>4, <3>1
  <2> QED  BY <1>3, <2>1, <2>2, <2>3, <2>4
<1>5. /\ {k \in D : k < p} = {} /\ {k \in D : k < q} = {p}
      /\ {k \in D : k < r} = {p} \cup {q} /\ p # q
  BY <1>4
<1>6. /\ Cardinality({}) = 0 /\ Cardinality({p}) = 1
      /\ Cardinality({p} \cup {q}) = 2
  <2>1. IsFiniteSet({p}) /\ Cardinality({p}) = 1 /\ q \notin {p}
    BY <1>5, FS_Singleton
  <2>2. Cardinality({p} \cup {q}) = Cardinality({p}) + 1
    BY <2>1, FS_AddElement
  <2> QED  BY <2>1, <2>2, FS_EmptySet
<1>7. Rank(D, p) = 0 /\ Rank(D, q) = 1 /\ Rank(D, r) = 2
  BY <1>5, <1>6 DEF Rank
<1> QED  BY <1>4, <1>7

-----------------------------------------------------------------------------
(* Which points the linked cubes cover. *)

\* The literal that digit k takes at position v agrees with x.
Lit(a, b, k, v, x) ==
  LET A0 == Agrees(Sources(a, b)[0], v, x)
      A1 == Agrees(Sources(a, b)[1], v, x)
  IN  IF k = 0 THEN A0 ELSE IF k = 1 THEN A1 ELSE (A0 <=> ~ A1)

\* The literals that the two cubes share agree with x.
Common(a, b, x) ==
  \A v \in Vars \ difference(a, b) : Agrees(Sources(a, b)[0], v, x)

\* What a linked cube covers, by where each literal comes from.
LEMMA ExorlinkCovers ==
  ASSUME NEW a \in Cubes, NEW b \in Cubes, NEW row, Digits(a, b, row),
         NEW x \in Points
  PROVE  Covers(exorlink(a, b, row), x) <=>
           /\ Common(a, b, x)
           /\ \A v \in difference(a, b) :
                Lit(a, b, row[1 + Rank(difference(a, b), v)], v, x)
<1> DEFINE d == difference(a, b)
           e == exorlink(a, b, row)
           L(v) == Lit(a, b, row[1 + Rank(d, v)], v, x)
           A0(v) == Agrees(Sources(a, b)[0], v, x)
<1>1. Covers(e, x) <=> \A v \in Vars : Agrees(e, v, x)
  BY ExorlinkIsCube, CoversLiterals
<1>2. d \subseteq Vars
  BY DifferenceIsWord
<1>3. ASSUME NEW v \in Vars \ d  PROVE Agrees(e, v, x) <=> A0(v)
  BY <1>3, ExorlinkAgrees
<1>4. ASSUME NEW v \in d  PROVE Agrees(e, v, x) <=> L(v)
  <2>1. row[1 + Rank(d, v)] \in {0, 1, 2}
    BY DEF Digits
  <2> QED  BY <1>2, <2>1, ExorlinkAgrees DEF Lit
<1>5. Common(a, b, x) <=> \A v \in Vars \ d : A0(v)
  BY DEF Common
<1> HIDE DEF d, e, L, A0
<1>6. Covers(e, x) <=> Common(a, b, x) /\ \A v \in d : L(v)
  BY <1>1, <1>2, <1>3, <1>4, <1>5
<1> QED  BY <1>6 DEF d, e, L

\* What the cubes of a pair cover, by their differing literals.
LEMMA PairCovers ==
  ASSUME NEW a \in Cubes, NEW b \in Cubes, NEW x \in Points
  PROVE  (Covers(a, x) <=> ~ Covers(b, x)) <=>
           ((Common(a, b, x) /\ \A v \in difference(a, b) : Lit(a, b, 0, v, x))
             <=> ~ (Common(a, b, x) /\ \A v \in difference(a, b) : Lit(a, b, 1, v, x)))
<1> DEFINE d  == difference(a, b)
           s0 == Sources(a, b)[0]
           s1 == Sources(a, b)[1]
<1>1. (s0 = a /\ s1 = b) \/ (s0 = b /\ s1 = a)
  <2>1. {s0, s1} = {a, b}
    BY SourcesAreCubes
  <2> QED  BY <2>1
<1>2. d \subseteq Vars /\ d = difference(s0, s1)
  BY <1>1, DifferenceIsWord
<1>3. \A v \in Vars \ d : Agrees(s0, v, x) <=> Agrees(s1, v, x)
  BY <1>1, <1>2, SameLiteral
<1>4. /\ Covers(s0, x) <=> \A v \in Vars : Agrees(s0, v, x)
      /\ Covers(s1, x) <=> \A v \in Vars : Agrees(s1, v, x)
  BY <1>1, CoversLiterals
<1>5. \A v : /\ Lit(a, b, 0, v, x) <=> Agrees(s0, v, x)
             /\ Lit(a, b, 1, v, x) <=> Agrees(s1, v, x)
  BY DEF Lit
<1>6. Common(a, b, x) <=> \A v \in Vars \ d : Agrees(s0, v, x)
  BY DEF Common
<1> HIDE DEF d, s0, s1
<1>7. /\ Covers(s0, x) <=> Common(a, b, x) /\ \A v \in d : Lit(a, b, 0, v, x)
      /\ Covers(s1, x) <=> Common(a, b, x) /\ \A v \in d : Lit(a, b, 1, v, x)
  BY <1>2, <1>3, <1>4, <1>5, <1>6
<1>8. (Covers(a, x) <=> ~ Covers(b, x)) <=> (Covers(s0, x) <=> ~ Covers(s1, x))
  BY <1>1
<1> QED  BY <1>7, <1>8 DEF d

-----------------------------------------------------------------------------
(* The exclusive sums. *)

\* The function of the two cubes that replace a pair.
LEMMA SumOfTwo ==
  ASSUME NEW n
  PROVE  EsopOfSeq(n, 1 .. 2) = SymDiff(OnSet(n[1]), OnSet(n[2]))
<1>1. EsopOfSeq(n, {1}) = SymDiff(EsopOfSeq(n, {}), OnSet(n[1]))
  <2>1. EsopOfSeq(n, {} \cup {1}) = SymDiff(EsopOfSeq(n, {}), OnSet(n[1]))
    BY EsopOfSeqAdd, FS_EmptySet
  <2> QED  BY <2>1
<1>2. EsopOfSeq(n, {1} \cup {2}) = SymDiff(EsopOfSeq(n, {1}), OnSet(n[2]))
  <2>1. IsFiniteSet({1})
    BY FS_Singleton
  <2>2. 2 \notin {1}
    OBVIOUS
  <2> QED  BY <2>1, <2>2, EsopOfSeqAdd
<1>3. 1 .. 2 = {1} \cup {2}
  OBVIOUS
<1> QED  BY <1>1, <1>2, <1>3, EsopOfSeqEmpty DEF SymDiff

\* The function of the three cubes that replace a pair.
LEMMA SumOfThree ==
  ASSUME NEW n
  PROVE  EsopOfSeq(n, 1 .. 3)
           = SymDiff(SymDiff(OnSet(n[1]), OnSet(n[2])), OnSet(n[3]))
<1>1. EsopOfSeq(n, (1 .. 2) \cup {3}) = SymDiff(EsopOfSeq(n, 1 .. 2), OnSet(n[3]))
  <2>1. IsFiniteSet(1 .. 2)
    <3>1. IsFiniteSet({1}) /\ IsFiniteSet({2})
      BY FS_Singleton
    <3>2. IsFiniteSet({1} \cup {2})
      BY <3>1, FS_Union
    <3>3. 1 .. 2 = {1} \cup {2}
      OBVIOUS
    <3> QED  BY <3>2, <3>3
  <2>2. 3 \notin 1 .. 2
    OBVIOUS
  <2> QED  BY <2>1, <2>2, EsopOfSeqAdd
<1>2. 1 .. 3 = (1 .. 2) \cup {3}
  OBVIOUS
<1> QED  BY <1>1, <1>2, SumOfTwo

\* ExorLink-2: either group has the exclusive sum of the pair.
LEMMA LinkTwo ==
  ASSUME NEW a \in Cubes, NEW b \in Cubes, distance(a, b) = 2, NEW g \in 1 .. 2
  PROVE  LET n == [j \in 1 .. 2 |-> exorlink(a, b, cube_groups2[g][j])]
         IN  /\ n \in [1 .. 2 -> Cubes]
             /\ EsopOfSeq(n, 1 .. 2) = SymDiff(OnSet(a), OnSet(b))
<1> DEFINE d == difference(a, b)
           row(j) == cube_groups2[g][j]
           n == [j \in 1 .. 2 |-> exorlink(a, b, row(j))]
<1>1. PICK p \in Nat, q \in Nat : d = {p, q} /\ Rank(d, p) = 0 /\ Rank(d, q) = 1
  <2>1. d \in SUBSET Nat /\ IsFiniteSet(d) /\ Cardinality(d) = 2
    BY DifferenceIsWord, NVarsAssumption, WidthAssumption DEF distance, Vars
  <2> QED  BY <2>1, OrderTwo
<1>2. \A j \in 1 .. 2 : \A i \in 1 .. 2 : row(j)[i] \in 0 .. 2
  BY DEF cube_groups2
<1>3. \A j \in 1 .. 2 : Digits(a, b, row(j))
  BY <1>1, <1>2 DEF Digits
<1>4. \A j \in 1 .. 2 : n[j] \in Cubes
  BY <1>3, ExorlinkIsCube
<1>5. ASSUME NEW x \in Points
      PROVE  (Covers(n[1], x) <=> ~ Covers(n[2], x)) <=> (Covers(a, x) <=> ~ Covers(b, x))
  <2> DEFINE L(k, v) == Lit(a, b, k, v, x)
  <2>1. \A j \in 1 .. 2 : Covers(n[j], x) <=>
          Common(a, b, x) /\ L(row(j)[1], p) /\ L(row(j)[2], q)
    BY <1>1, <1>3, ExorlinkCovers
  <2>2. (Covers(a, x) <=> ~ Covers(b, x)) <=>
          ((Common(a, b, x) /\ L(0, p) /\ L(0, q))
             <=> ~ (Common(a, b, x) /\ L(1, p) /\ L(1, q)))
    BY <1>1, PairCovers
  <2>3. \A v : L(2, v) <=> (L(0, v) <=> ~ L(1, v))
    BY DEF Lit
  <2> HIDE DEF L, n
  <2>4. CASE g = 1
    BY <2>1, <2>2, <2>3, <2>4 DEF cube_groups2
  <2>5. CASE g = 2
    BY <2>1, <2>2, <2>3, <2>5 DEF cube_groups2
  <2> QED  BY <2>4, <2>5
<1>6. SymDiff(OnSet(n[1]), OnSet(n[2])) = SymDiff(OnSet(a), OnSet(b))
  BY <1>5 DEF OnSet, SymDiff
<1> QED  BY <1>4, <1>6, SumOfTwo

\* ExorLink-3: so has each of its six groups.
LEMMA LinkThree ==
  ASSUME NEW a \in Cubes, NEW b \in Cubes, distance(a, b) = 3, NEW g \in 1 .. 6
  PROVE  LET n == [j \in 1 .. 3 |-> exorlink(a, b, cube_groups3[g][j])]
         IN  /\ n \in [1 .. 3 -> Cubes]
             /\ EsopOfSeq(n, 1 .. 3) = SymDiff(OnSet(a), OnSet(b))
<1> DEFINE d == difference(a, b)
           row(j) == cube_groups3[g][j]
           n == [j \in 1 .. 3 |-> exorlink(a, b, row(j))]
<1>1. PICK p \in Nat, q \in Nat, r \in Nat :
        /\ d = {p, q, r}
        /\ Rank(d, p) = 0 /\ Rank(d, q) = 1 /\ Rank(d, r) = 2
  <2>1. d \in SUBSET Nat /\ IsFiniteSet(d) /\ Cardinality(d) = 3
    BY DifferenceIsWord, NVarsAssumption, WidthAssumption DEF distance, Vars
  <2> QED  BY <2>1, OrderThree
<1>2. \A j \in 1 .. 3 : \A i \in 1 .. 3 : row(j)[i] \in 0 .. 2
  BY DEF cube_groups3
<1>3. \A j \in 1 .. 3 : Digits(a, b, row(j))
  BY <1>1, <1>2 DEF Digits
<1>4. \A j \in 1 .. 3 : n[j] \in Cubes
  BY <1>3, ExorlinkIsCube
<1>5. ASSUME NEW x \in Points
      PROVE  (Covers(n[3], x) <=> ~ (Covers(n[1], x) <=> ~ Covers(n[2], x)))
               <=> (Covers(a, x) <=> ~ Covers(b, x))
  <2> DEFINE L(k, v) == Lit(a, b, k, v, x)
  <2>1. \A j \in 1 .. 3 : Covers(n[j], x) <=>
          Common(a, b, x) /\ L(row(j)[1], p) /\ L(row(j)[2], q) /\ L(row(j)[3], r)
    BY <1>1, <1>3, ExorlinkCovers
  <2>2. (Covers(a, x) <=> ~ Covers(b, x)) <=>
          ((Common(a, b, x) /\ L(0, p) /\ L(0, q) /\ L(0, r))
             <=> ~ (Common(a, b, x) /\ L(1, p) /\ L(1, q) /\ L(1, r)))
    BY <1>1, PairCovers
  <2>3. \A v : L(2, v) <=> (L(0, v) <=> ~ L(1, v))
    BY DEF Lit
  <2> HIDE DEF L, n
  <2>4. CASE g \in {1, 2, 3}
    BY <2>1, <2>2, <2>3, <2>4 DEF cube_groups3
  <2>5. CASE g \in {4, 5, 6}
    BY <2>1, <2>2, <2>3, <2>5 DEF cube_groups3
  <2> QED  BY <2>4, <2>5
<1>6. SymDiff(SymDiff(OnSet(n[1]), OnSet(n[2])), OnSet(n[3]))
        = SymDiff(OnSet(a), OnSet(b))
  BY <1>5 DEF OnSet, SymDiff
<1> QED  BY <1>4, <1>6, SumOfThree

-----------------------------------------------------------------------------
(* The data the actions handle. *)

\* A pass works on pairs at distance 2 or 3.
LEMMA DistIsTwoOrThree ==
  ASSUME NEW p \in Nat
  PROVE  DistOf(p) \in {2, 3} /\ DistOf(p) \in Dists
  BY DEF DistOf, Dists, m_max_dist

\* There are two queues.
LEMMA DistsAre == Dists = {2, 3}
  BY DEF Dists, m_max_dist

\* The constructor is given cubes over the inputs.
LEMMA OriginalCubes ==
  ASSUME NEW o \in Originals
  PROVE  /\ o \in Seq(Cubes) /\ Len(o) \in Nat
         /\ \A i \in 1 .. Len(o) : o[i] \in Cubes
  BY OriginalsAssumption

\* The cover is a finite set of cubes over the inputs.
LEMMA CoverIsFinite ==
  ASSUME TypeOK
  PROVE  Cover \subseteq Cubes /\ IsFiniteSet(Cover) /\ n_cubes \in Nat
<1>1. Cover \subseteq Cubes
  BY DEF TypeOK, Cover
<1> QED  BY <1>1, CubesFinite DEF n_cubes

\* The cubes a pair is replaced by are cubes, and sum up to the pair.
LEMMA LinkedSum ==
  ASSUME TypeOK, LinkOK, Linking
  PROVE  /\ dist \in {2, 3} /\ Tries = 1 .. dist
         /\ Linked \in [Tries -> Cubes]
         /\ EsopOfSeq(Linked, Tries) = SymDiff(OnSet(pair[1]), OnSet(pair[2]))
<1>1. /\ dist \in {2, 3} /\ Tries = 1 .. dist
      /\ pair[1] \in Cubes /\ pair[2] \in Cubes
      /\ distance(pair[1], pair[2]) = dist
      /\ group \in 1 .. Len(Groups(dist))
  BY DistIsTwoOrThree DEF TypeOK, LinkOK, dist, Tries
<1>2. CASE dist = 2
  <2>1. group \in 1 .. 2 /\ Groups(dist)[group] = cube_groups2[group]
    BY <1>1, <1>2 DEF Groups, cube_groups2
  <2>2. Linked = [j \in 1 .. 2 |-> exorlink(pair[1], pair[2], cube_groups2[group][j])]
    BY <1>1, <1>2, <2>1 DEF Linked
  <2> QED  BY <1>1, <1>2, <2>1, <2>2, LinkTwo
<1>3. CASE dist = 3
  <2>1. group \in 1 .. 6 /\ Groups(dist)[group] = cube_groups3[group]
    BY <1>1, <1>3 DEF Groups, cube_groups3
  <2>2. Linked = [j \in 1 .. 3 |-> exorlink(pair[1], pair[2], cube_groups3[group][j])]
    BY <1>1, <1>3, <2>1 DEF Linked
  <2> QED  BY <1>1, <1>3, <2>1, <2>2, LinkThree
<1> QED  BY <1>1, <1>2, <1>3

\* The pairs that a scan queues.
LEMMA ListedPairs ==
  ASSUME TypeOK, NEW c \in Cubes, NEW d \in Dists, NEW s \in Listings(c, d)
  PROVE  /\ Paired(c, s) \in Seq(Cubes \X Cubes)
         /\ \A k \in 1 .. Len(Paired(c, s)) :
              distance(Paired(c, s)[k][1], Paired(c, s)[k][2]) = d
<1> DEFINE near == {x \in Scanned(c) : distance(c, x) = d}
           n == Cardinality(near)
<1>1. near \subseteq Cubes
  BY DEF Scanned, Window, TypeOK
<1>2. n \in Nat
  BY <1>1, CubesFinite
<1>3. s \in [1 .. n -> near]
  BY DEF Listings
<1>4. Paired(c, s) = [k \in 1 .. n |-> <<c, s[k]>>]
  BY <1>3 DEF Paired
<1>5. \A k \in 1 .. n : s[k] \in Cubes /\ distance(c, s[k]) = d
  BY <1>1, <1>3
<1> HIDE DEF n
<1>6. Paired(c, s) \in Seq(Cubes \X Cubes) /\ Len(Paired(c, s)) = n
  BY <1>2, <1>4, <1>5
<1>7. \A k \in 1 .. n : Paired(c, s)[k][1] = c /\ Paired(c, s)[k][2] = s[k]
  BY <1>4
<1> QED  BY <1>5, <1>6, <1>7

\* A rollback cuts the queues at the bookmark.
LEMMA RollbackCuts ==
  ASSUME TypeOK, RollbackShrinks, Attempting
  PROVE  /\ Rollback \in [Dists -> Seq(Cubes \X Cubes)]
         /\ \A d \in Dists : /\ Len(Rollback[d]) = bookmark[d]
                             /\ \A k \in 1 .. bookmark[d] : Rollback[d][k] = m_pairs[d][k]
<1> SUFFICES ASSUME NEW d \in Dists
             PROVE  LET r == SubSeq(m_pairs[d], 1, bookmark[d])
                    IN  /\ r \in Seq(Cubes \X Cubes) /\ Len(r) = bookmark[d]
                        /\ \A k \in 1 .. bookmark[d] : r[k] = m_pairs[d][k]
  BY DEF Rollback
<1>1. /\ m_pairs[d] \in Seq(Cubes \X Cubes) /\ bookmark[d] \in Nat
      /\ bookmark[d] <= Len(m_pairs[d])
  BY DEF TypeOK, RollbackShrinks
<1>2. \A k \in 1 .. bookmark[d] : m_pairs[d][k] \in Cubes \X Cubes
  BY <1>1
<1> QED  BY <1>1, <1>2, SubSeqProperties

\* The next linked cube is one of those left.
LEMMA MinInSet ==
  ASSUME NEW I \in SUBSET (1 .. 3), I # {}
  PROVE  Min(I) \in I
<1>1. \E x \in I : \A y \in I : x <= y
  <2>1. CASE 1 \in I
    BY <2>1
  <2>2. CASE 1 \notin I /\ 2 \in I
    BY <2>2
  <2>3. CASE 1 \notin I /\ 2 \notin I
    <3>1. \A y \in I : y = 3
      BY <2>3
    <3>2. PICK y \in I : TRUE
      OBVIOUS
    <3> QED  BY <3>1, <3>2
  <2> QED  BY <2>1, <2>2, <2>3
<1> QED  BY <1>1 DEF Min

AtDistance(q, d) == \A k \in 1 .. Len(q) : distance(q[k][1], q[k][2]) = d

\* The pairs that add_cube appends to a queue.
LEMMA ConcatPairs ==
  ASSUME NEW q \in Seq(Cubes \X Cubes), NEW r \in Seq(Cubes \X Cubes), NEW d,
         AtDistance(q, d), AtDistance(r, d)
  PROVE  /\ q \o r \in Seq(Cubes \X Cubes)
         /\ Len(q) <= Len(q \o r)
         /\ AtDistance(q \o r, d)
<1>1. /\ Len(q) \in Nat /\ Len(r) \in Nat
      /\ q \o r \in Seq(Cubes \X Cubes) /\ Len(q \o r) = Len(q) + Len(r)
  OBVIOUS
<1>2. ASSUME NEW k \in 1 .. Len(q \o r)
      PROVE  distance((q \o r)[k][1], (q \o r)[k][2]) = d
  <2>1. CASE k <= Len(q)
    <3>1. (q \o r)[k] = q[k] /\ k \in 1 .. Len(q)
      BY <1>1, <2>1
    <3> QED  BY <3>1 DEF AtDistance
  <2>2. CASE k > Len(q)
    <3>1. (q \o r)[k] = r[k - Len(q)] /\ k - Len(q) \in 1 .. Len(r)
      BY <1>1, <2>2
    <3> QED  BY <3>1 DEF AtDistance
  <2> QED  BY <1>1, <2>1, <2>2
<1> QED  BY <1>1, <1>2 DEF AtDistance

-----------------------------------------------------------------------------
(* Types and control. *)

\* The constructor starts with empty buckets and empty queues.
LEMMA InitControl == Init => ControlInv
<1> SUFFICES ASSUME Init PROVE ControlInv
  OBVIOUS
<1>1. cube32_one \in Cubes
  BY CubeIntro DEF cube32_one
<1>2. TypeOK
  <2>1. original \in Originals /\ loaded \in 0 .. Len(original)
    BY OriginalCubes DEF Init
  <2>2. m_pairs \in [Dists -> Seq(Cubes \X Cubes)] /\ bookmark \in [Dists -> Nat]
    BY DEF Init
  <2>3. pair \in Cubes \X Cubes /\ cube \in Cubes /\ m_cubes \in [Buckets -> SUBSET Cubes]
    BY <1>1 DEF Init
  <2>4. /\ pc = "ctor" /\ kind \in Kinds /\ add = FALSE /\ gain = 0 /\ caller = "ctor"
        /\ group = 1 /\ tried = 1 /\ left = {} /\ pass = 1 /\ todo = 0
        /\ old_size = 0 /\ total = 0 /\ without_improv = 0
    BY DEF Init
  <2>5. /\ pc \in Labels \cup {"add_cube", "done"} /\ add \in BOOLEAN
        /\ gain \in Nat /\ caller \in {"ctor", "attempted", "follow"}
    BY <2>4 DEF Labels
  <2>6. /\ group \in 1 .. 6 /\ tried \in 1 .. 3 /\ left \subseteq 1 .. 3
        /\ pass \in 1 .. NPasses /\ todo \in Nat /\ old_size \in Nat
        /\ total \in Int /\ without_improv \in Nat
    BY <2>4 DEF NPasses
  <2> QED  BY <2>1, <2>2, <2>3, <2>4, <2>5, <2>6 DEF TypeOK
<1>3. LinkOK /\ QueuesOK
  BY DEF Init, LinkOK, Following, QueuesOK, QueueCoversPass, RollbackShrinks, Linking,
    Attempting
<1>4. PairsAtDistance
  BY DEF Init, PairsAtDistance
<1> QED  BY <1>2, <1>3, <1>4 DEF ControlInv

\* Every step keeps the types, the tables and the queues in order.
LEMMA NextControl == ControlInv /\ [Next]_vars => ControlInv'
<1> SUFFICES ASSUME ControlInv, [Next]_vars PROVE ControlInv'
  OBVIOUS
<1> USE DEF ControlInv
<1> USE DistIsTwoOrThree, DistsAre DEF dist
<1>1. CASE AddCubeMerge
  <2>1. PICK i \in Buckets, x \in Cubes :
          /\ x \in m_cubes[i] /\ distance(cube, x) = 1
          /\ m_cubes' = [m_cubes EXCEPT ![i] = @ \ {x}]
          /\ cube' = merge(cube, x)
    BY <1>1 DEF AddCubeMerge, TypeOK
  <2>2. cube' \in Cubes
    BY <2>1, MergeIsCube DEF TypeOK
  <2>3. m_cubes' \in [Buckets -> SUBSET Cubes]
    BY <2>1 DEF TypeOK
  <2>4. TypeOK'
    BY <1>1, <2>2, <2>3 DEF AddCubeMerge, TypeOK, inputVars, linkVars, passVars, runVars
  <2>5. LinkOK'
    BY <1>1 DEF AddCubeMerge, TypeOK, LinkOK, Linking, Following, Tries, inputVars, linkVars, passVars
  <2>6. QueuesOK' /\ PairsAtDistance'
    BY <1>1 DEF AddCubeMerge, QueuesOK, QueueCoversPass, RollbackShrinks, Linking,
      Attempting, PairsAtDistance, linkVars, passVars
  <2> QED  BY <2>4, <2>5, <2>6
<1>2. CASE AddCubeCancel
  <2>1. m_cubes' \in [Buckets -> SUBSET Cubes]
    BY <1>2 DEF AddCubeCancel, TypeOK
  <2>2. TypeOK'
    BY <1>2, <2>1 DEF AddCubeCancel, TypeOK, Labels, inputVars, linkVars, passVars, runVars
  <2>3. LinkOK'
    BY <1>2 DEF AddCubeCancel, TypeOK, LinkOK, Linking, Following, Tries, inputVars, linkVars, passVars
  <2>4. QueuesOK' /\ PairsAtDistance'
    BY <1>2 DEF AddCubeCancel, TypeOK, QueuesOK, QueueCoversPass, RollbackShrinks, Linking,
      Attempting, PairsAtDistance, linkVars, passVars
  <2> QED  BY <2>2, <2>3, <2>4
<1>3. CASE AddCubeKeep
  <2>1. PICK s2 \in Listings(cube, 2), s3 \in Listings(cube, 3) :
          m_pairs' = [d \in Dists |-> m_pairs[d] \o
                        Paired(cube, IF d = 2 THEN s2 ELSE s3)]
    BY <1>3 DEF AddCubeKeep
  <2> DEFINE new(d) == Paired(cube, IF d = 2 THEN s2 ELSE s3)
  <2>2. \A d \in Dists : /\ new(d) \in Seq(Cubes \X Cubes)
                         /\ \A k \in 1 .. Len(new(d)) :
                              distance(new(d)[k][1], new(d)[k][2]) = d
    BY ListedPairs DEF TypeOK
  <2>3. \A d \in Dists : /\ m_pairs'[d] = m_pairs[d] \o new(d)
                         /\ m_pairs[d] \in Seq(Cubes \X Cubes)
    BY <2>1 DEF TypeOK
  <2> HIDE DEF new
  <2>4. \A d \in Dists : /\ m_pairs'[d] \in Seq(Cubes \X Cubes)
                         /\ Len(m_pairs[d]) <= Len(m_pairs'[d])
                         /\ \A k \in 1 .. Len(m_pairs'[d]) :
                              distance(m_pairs'[d][k][1], m_pairs'[d][k][2]) = d
    <3> SUFFICES ASSUME NEW d \in Dists
                 PROVE  LET q == m_pairs[d] \o new(d)
                        IN  /\ q \in Seq(Cubes \X Cubes)
                            /\ Len(m_pairs[d]) <= Len(q)
                            /\ \A k \in 1 .. Len(q) : distance(q[k][1], q[k][2]) = d
      BY <2>3
    <3>1. AtDistance(m_pairs[d], d) /\ AtDistance(new(d), d)
      BY <2>2 DEF PairsAtDistance, AtDistance
    <3>2. m_pairs[d] \in Seq(Cubes \X Cubes) /\ new(d) \in Seq(Cubes \X Cubes)
      BY <2>2, <2>3
    <3> QED  BY ONLY <3>1, <3>2, ConcatPairs DEF AtDistance
  <2>5. m_cubes' \in [Buckets -> SUBSET Cubes]
    BY <1>3 DEF AddCubeKeep, Inserted, TypeOK
  <2>6. m_pairs' \in [Dists -> Seq(Cubes \X Cubes)]
    BY <2>1, <2>4
  <2>7. TypeOK'
    BY <1>3, <2>5, <2>6 DEF AddCubeKeep, TypeOK, Labels, inputVars, addVars, linkVars,
      passVars, runVars
  <2>8. LinkOK'
    BY <1>3 DEF AddCubeKeep, TypeOK, LinkOK, Linking, Following, Tries, addVars, inputVars, linkVars,
      passVars
  <2>9. QueuesOK'
    <3>1. /\ dist' = dist /\ dist \in Dists
          /\ todo' = todo /\ todo \in Nat /\ bookmark' = bookmark
          /\ \A d \in Dists : bookmark[d] \in Nat
          /\ \A d \in Dists : Len(m_pairs[d]) \in Nat /\ Len(m_pairs'[d]) \in Nat
      BY <1>3, <2>3, <2>6 DEF AddCubeKeep, passVars, TypeOK
    <3>2. /\ pc' # "exorlink"
          /\ Linking' => Linking
          /\ Attempting' => Attempting
      <4>1. pc = "add_cube" /\ pc' = caller /\ UNCHANGED <<gain, caller, add>>
        BY <1>3 DEF AddCubeKeep, addVars
      <4> QED  BY <4>1 DEF TypeOK, LinkOK, Linking, Attempting
    <3>3. QueueCoversPass'
      <4>1. Len(m_pairs[dist]) <= Len(m_pairs'[dist])
        BY <2>4, <3>1
      <4>2. Linking' => todo <= Len(m_pairs[dist])
        BY <3>2 DEF QueuesOK, QueueCoversPass
      <4> QED  BY <3>1, <3>2, <4>1, <4>2 DEF QueueCoversPass
    <3>4. RollbackShrinks'
      BY <2>4, <3>1, <3>2 DEF QueuesOK, RollbackShrinks
    <3> QED  BY <3>1, <3>2, <3>3, <3>4 DEF QueuesOK
  <2>10. PairsAtDistance'
    BY <2>4 DEF PairsAtDistance
  <2> QED  BY <2>7, <2>8, <2>9, <2>10
<1>4. CASE Load
  <2>1. original[loaded'] \in Cubes /\ loaded' \in 0 .. Len(original)
    BY <1>4, OriginalCubes DEF Load, TypeOK
  <2>2. TypeOK'
    BY <1>4, <2>1 DEF Load, CallAddCube, TypeOK, Labels, inputVars, linkVars, passVars, runVars
  <2>3. LinkOK'
    BY <1>4 DEF Load, CallAddCube, LinkOK, Linking, Following, passVars, linkVars
  <2>4. QueuesOK' /\ PairsAtDistance'
    BY <1>4 DEF Load, CallAddCube, QueuesOK, QueueCoversPass, RollbackShrinks, Linking,
      Attempting, PairsAtDistance
  <2> QED  BY <2>2, <2>3, <2>4
<1>5. CASE Loaded
  BY <1>5 DEF Loaded, TypeOK, Labels, LinkOK, Following, QueuesOK, QueueCoversPass, RollbackShrinks,
    Linking, Attempting, PairsAtDistance, inputVars, addVars, linkVars, passVars, runVars
<1>6. CASE StartPass
  <2>1. todo' \in Nat /\ todo' = Len(m_pairs[dist]) /\ old_size' \in Nat
    BY <1>6, CoverIsFinite DEF StartPass, TypeOK
  <2> QED
    BY <1>6, <2>1 DEF StartPass, TypeOK, Labels, LinkOK, Following, QueuesOK, QueueCoversPass,
      RollbackShrinks, Linking, Attempting, PairsAtDistance, inputVars, addVars, linkVars,
      runVars
<1>7. CASE DropPair \/ TakePair
  <2>1. /\ pc = "exorlink" /\ todo > 0 /\ todo' = todo - 1
        /\ m_pairs' = [m_pairs EXCEPT ![dist] = Tail(@)]
        /\ pass' = pass
    BY <1>7 DEF DropPair, TakePair, PopPair
  <2>2. /\ dist \in Dists /\ dist' = dist
        /\ m_pairs[dist] \in Seq(Cubes \X Cubes) /\ m_pairs[dist] # <<>>
    BY <2>1 DEF TypeOK, QueuesOK, QueueCoversPass
  <2>3. /\ Head(m_pairs[dist]) \in Cubes \X Cubes
        /\ distance(Head(m_pairs[dist])[1], Head(m_pairs[dist])[2]) = dist
    <3>1. Head(m_pairs[dist]) = m_pairs[dist][1] /\ 1 \in 1 .. Len(m_pairs[dist])
      BY <2>2
    <3> QED  BY <2>2, <3>1 DEF PairsAtDistance
  <2>4. /\ m_pairs' \in [Dists -> Seq(Cubes \X Cubes)]
        /\ Len(m_pairs'[dist]) = Len(m_pairs[dist]) - 1
        /\ todo' \in Nat /\ todo' <= Len(m_pairs'[dist])
    BY <2>1, <2>2 DEF TypeOK, QueuesOK, QueueCoversPass
  <2>5. PairsAtDistance'
    <3> SUFFICES ASSUME NEW d \in Dists, NEW k \in 1 .. Len(m_pairs'[d])
                 PROVE  distance(m_pairs'[d][k][1], m_pairs'[d][k][2]) = d
      BY DEF PairsAtDistance
    <3>1. CASE d = dist
      <4>1. m_pairs'[d][k] = m_pairs[d][k + 1] /\ k + 1 \in 1 .. Len(m_pairs[d])
        BY <2>1, <2>2, <3>1, HeadTailProperties DEF TypeOK
      <4> QED  BY <4>1 DEF PairsAtDistance
    <3>2. CASE d # dist
      BY <2>1, <3>2 DEF PairsAtDistance, TypeOK
    <3> QED  BY <3>1, <3>2
  <2>6. CASE DropPair
    BY <2>4, <2>5, <2>6, <2>1, <2>2 DEF DropPair, TypeOK, LinkOK, Following, QueuesOK, QueueCoversPass,
      RollbackShrinks, Linking, Attempting, inputVars, addVars, linkVars, runVars
  <2>7. CASE TakePair
    <3>1. /\ pair' \in Cubes \X Cubes /\ distance(pair'[1], pair'[2]) = dist
          /\ pc' = "attempt" /\ group' = 1 /\ tried' = 1 /\ left' = left
      BY <2>3, <2>7 DEF TakePair
    <3>2. m_cubes' \in [Buckets -> SUBSET Cubes]
      BY <2>7 DEF TakePair, Erased, TypeOK
    <3>3. bookmark' = [d \in Dists |-> Len(m_pairs'[d])] /\ bookmark' \in [Dists -> Nat]
      <4>1. bookmark' = [d \in Dists |-> Len(m_pairs'[d])]
        BY <2>7 DEF TakePair, Lengths
      <4>2. \A d \in Dists : Len(m_pairs'[d]) \in Nat
        BY <2>4
      <4> QED  BY ONLY <4>1, <4>2
    <3>4. TypeOK'
      <4>1. UNCHANGED <<inputVars, loaded, addVars, left, pass, old_size, runVars>>
        BY <2>7 DEF TakePair
      <4> QED
        BY <2>4, <3>1, <3>2, <3>3, <4>1 DEF TypeOK, Labels, inputVars, addVars, runVars
    <3>5. LinkOK'
      <4>1. Len(Groups(dist)) \in Nat /\ Len(Groups(dist)) >= 1
        BY <2>2 DEF Groups, cube_groups2, cube_groups3
      <4> QED  BY <2>2, <3>1, <4>1 DEF LinkOK, Linking, Following, Tries
    <3>6. QueuesOK'
      BY <2>2, <2>4, <3>1, <3>3 DEF QueuesOK, QueueCoversPass, RollbackShrinks
    <3> QED  BY <2>5, <3>4, <3>5, <3>6
  <2> QED  BY <1>7, <2>6, <2>7
<1>8. CASE Attempt
  <2>1. Linked[tried] \in Cubes
    <3>1. Linking /\ tried \in Tries
      BY <1>8 DEF Attempt, LinkOK, Linking
    <3>2. Linked \in [Tries -> Cubes]
      BY <3>1, LinkedSum
    <3> QED  BY <3>1, <3>2
  <2>2. TypeOK'
    BY <1>8, <2>1 DEF Attempt, CallAddCube, TypeOK, Labels, inputVars, linkVars, passVars,
      runVars
  <2>3. LinkOK'
    <3>1. Linked' = Linked /\ tried' = tried
      BY <1>8 DEF Attempt, Linked, Tries, linkVars, passVars
    <3> QED
      BY <1>8, <3>1 DEF Attempt, CallAddCube, LinkOK, Linking, Following, Tries, linkVars,
        passVars
  <2>4. QueuesOK' /\ PairsAtDistance'
    BY <1>8 DEF Attempt, CallAddCube, QueuesOK, QueueCoversPass, RollbackShrinks, Linking,
      Attempting, PairsAtDistance, linkVars, passVars
  <2> QED  BY <2>2, <2>3, <2>4
<1>9. CASE AttemptGained
  <2>1. Tries \subseteq 1 .. 3
    BY DEF Tries, TypeOK
  <2>2. TypeOK'
    BY <1>9, <2>1 DEF AttemptGained, TypeOK, Labels, inputVars, addVars, passVars, runVars
  <2>3. LinkOK'
    BY <1>9 DEF AttemptGained, LinkOK, Linking, Following, Tries, passVars
  <2>4. QueuesOK' /\ PairsAtDistance'
    BY <1>9 DEF AttemptGained, QueuesOK, QueueCoversPass, RollbackShrinks, Linking,
      Attempting, PairsAtDistance, passVars
  <2> QED  BY <2>2, <2>3, <2>4
<1>10. CASE TryNextCube \/ TryNextGroup \/ GiveUp
  <2>1. pc = "attempted" /\ gain = 0 /\ Linking /\ Attempting /\ pass' = pass /\ gain' = gain
    BY <1>10 DEF TryNextCube, TryNextGroup, GiveUp, Linking, Attempting, passVars, addVars
  <2>2. /\ dist' = dist /\ dist \in Dists
        /\ todo' = todo /\ todo \in Nat /\ bookmark' = bookmark
        /\ todo <= bookmark[dist]
        /\ \A d \in Dists : bookmark[d] \in Nat /\ bookmark[d] <= Len(m_pairs[d])
    BY <1>10, <2>1 DEF TryNextCube, TryNextGroup, GiveUp, TypeOK, QueuesOK, RollbackShrinks,
      passVars
  <2>3. /\ Rollback \in [Dists -> Seq(Cubes \X Cubes)]
        /\ \A d \in Dists : Len(Rollback[d]) = bookmark[d] /\ AtDistance(Rollback[d], d)
    <3>1. /\ Rollback \in [Dists -> Seq(Cubes \X Cubes)]
          /\ \A d \in Dists : /\ Len(Rollback[d]) = bookmark[d]
                              /\ \A k \in 1 .. bookmark[d] : Rollback[d][k] = m_pairs[d][k]
      BY <2>1, RollbackCuts DEF QueuesOK
    <3>2. ASSUME NEW d \in Dists, NEW k \in 1 .. bookmark[d]
          PROVE  distance(Rollback[d][k][1], Rollback[d][k][2]) = d
      <4>1. k \in 1 .. Len(m_pairs[d]) /\ Rollback[d][k] = m_pairs[d][k]
        BY <2>2, <3>1 DEF TypeOK
      <4> QED  BY <4>1 DEF PairsAtDistance
    <3> QED  BY <3>1, <3>2 DEF AtDistance
  <2>4. pair \in Cubes \X Cubes /\ distance(pair[1], pair[2]) = dist
    BY <2>1 DEF TypeOK, LinkOK
  <2>5. /\ m_pairs' \in [Dists -> Seq(Cubes \X Cubes)]
        /\ \A d \in Dists : /\ bookmark[d] <= Len(m_pairs'[d])
                            /\ AtDistance(m_pairs'[d], d)
    <3>1. \A d \in Dists : AtDistance(m_pairs[d], d)
      BY DEF PairsAtDistance, AtDistance
    <3>2. CASE TryNextCube \/ TryNextGroup
      <4>1. m_pairs' = Rollback \/ m_pairs' = m_pairs
        BY <3>2 DEF TryNextCube, TryNextGroup
      <4> QED  BY <2>2, <2>3, <3>1, <4>1 DEF TypeOK
    <3>3. CASE GiveUp
      <4>1. CASE dist = 3
        BY <2>2, <2>3, <3>3, <4>1 DEF GiveUp
      <4>2. CASE dist = 2
        <5> DEFINE q == Append(Rollback[2], pair)
        <5>1. m_pairs' = [Rollback EXCEPT ![2] = q]
          BY <3>3, <4>2 DEF GiveUp
        <5>2. /\ q \in Seq(Cubes \X Cubes) /\ Len(q) = Len(Rollback[2]) + 1
              /\ \A k \in 1 .. Len(Rollback[2]) : q[k] = Rollback[2][k]
              /\ q[Len(Rollback[2]) + 1] = pair
          BY <2>3, <2>4, AppendProperties
        <5>3. AtDistance(q, 2)
          BY <2>3, <2>4, <4>2, <5>2 DEF AtDistance
        <5> HIDE DEF q
        <5> QED  BY <2>2, <2>3, <5>1, <5>2, <5>3
      <4> QED  BY <2>2, <4>1, <4>2
    <3> QED  BY <1>10, <3>2, <3>3
  <2>6. PairsAtDistance'
    BY <2>5 DEF PairsAtDistance, AtDistance
  <2>7. QueuesOK'
    BY <2>2, <2>5 DEF QueuesOK, QueueCoversPass, RollbackShrinks, TypeOK
  <2>8. m_cubes' \in [Buckets -> SUBSET Cubes]
    BY <1>10, <2>4 DEF TryNextCube, TryNextGroup, GiveUp, Inserted, TypeOK
  <2>9. TypeOK' /\ LinkOK'
    <3>1. CASE TryNextCube
      <4>1. /\ pc' = "attempt" /\ tried' = tried + 1 /\ tried < dist
            /\ UNCHANGED <<inputVars, loaded, m_cubes, bookmark, addVars,
                           pair, group, left, passVars, runVars>>
        BY <3>1 DEF TryNextCube
      <4>2. tried' \in Tries' /\ tried' \in 1 .. 3
        BY <4>1, <2>2 DEF TypeOK, Tries, Linking, LinkOK, passVars
      <4>3. TypeOK'
        BY <4>1, <4>2, <2>5, <2>8, <2>2 DEF TypeOK, Labels, inputVars, addVars, passVars, runVars
      <4>4. LinkOK'
        BY <4>1, <4>2, <2>1, <2>2 DEF LinkOK, Linking, Following, passVars, Groups
      <4> QED  BY <4>3, <4>4
    <3>2. CASE TryNextGroup
      <4>1. Len(Groups(dist)) \in Nat /\ Len(Groups(dist)) <= 6
        BY <2>2 DEF Groups, cube_groups2, cube_groups3
      <4>2. /\ pc' = "attempt" /\ tried' = 1 /\ group' = group + 1 /\ group < Len(Groups(dist))
            /\ UNCHANGED <<inputVars, loaded, m_cubes, bookmark, addVars,
                           pair, left, passVars, runVars>>
        BY <3>2 DEF TryNextGroup
      <4>3. /\ tried' \in Tries' /\ tried' \in 1 .. 3
            /\ group' \in 1 .. 6 /\ group' <= Len(Groups(dist))
        BY <4>1, <4>2, <2>2 DEF TypeOK, Tries, passVars
      <4>4. TypeOK'
        BY <4>2, <4>3, <2>5, <2>8, <2>2 DEF TypeOK, Labels, inputVars, addVars, passVars, runVars
      <4>5. LinkOK'
        BY <4>2, <4>3, <2>1, <2>2 DEF LinkOK, Linking, Following, passVars, Groups
      <4> QED  BY <4>4, <4>5
    <3>3. CASE GiveUp
      <4>1. UNCHANGED <<inputVars, loaded, bookmark, addVars, linkVars, passVars, runVars>>
            /\ pc' = "exorlink"
        BY <3>3 DEF GiveUp
      <4> QED
        BY <4>1, <2>5, <2>8 DEF TypeOK, Labels, LinkOK, Linking, Following, inputVars,
          addVars, linkVars, passVars, runVars
    <3> QED  BY <1>10, <3>1, <3>2, <3>3
  <2> QED  BY <2>6, <2>7, <2>9
<1>11. CASE AddOther
  <2>1. Min(left) \in left
    BY <1>11, MinInSet DEF AddOther, TypeOK
  <2>2. Linked[Min(left)] \in Cubes
    <3>1. Linking /\ Min(left) \in Tries
      BY <1>11, <2>1 DEF AddOther, LinkOK, Linking, Following
    <3>2. Linked \in [Tries -> Cubes]
      BY <3>1, LinkedSum
    <3> QED  BY <3>1, <3>2
  <2>3. TypeOK'
    BY <1>11, <2>2 DEF AddOther, CallAddCube, TypeOK, Labels, inputVars, passVars, runVars
  <2>4. LinkOK'
    BY <1>11 DEF AddOther, CallAddCube, LinkOK, Linking, Following, Tries, passVars
  <2>5. QueuesOK' /\ PairsAtDistance'
    BY <1>11 DEF AddOther, CallAddCube, QueuesOK, QueueCoversPass, RollbackShrinks, Linking,
      Attempting, PairsAtDistance, passVars
  <2> QED  BY <2>3, <2>4, <2>5
<1>12. CASE Replaced
  BY <1>12 DEF Replaced, TypeOK, Labels, LinkOK, Following, QueuesOK, QueueCoversPass,
    RollbackShrinks, Linking, Attempting, PairsAtDistance, inputVars, addVars, linkVars,
    passVars, runVars
<1>13. CASE EndPass
  <2>1. /\ pass' \in 1 .. NPasses /\ total' \in Int /\ without_improv' \in Nat
        /\ pc' \in {"run", "done"}
    <3> DEFINE round_gain == total + (old_size - n_cubes)
    <3>1. round_gain \in Int
      BY CoverIsFinite DEF TypeOK
    <3>2. CASE pass < NPasses
      BY <1>13, <3>1, <3>2 DEF EndPass, TypeOK, NPasses
    <3>3. CASE ~ (pass < NPasses)
      BY <1>13, <3>1, <3>3 DEF EndPass, TypeOK, NPasses
    <3> QED  BY <3>2, <3>3
  <2>2. UNCHANGED <<inputVars, loaded, m_cubes, m_pairs, bookmark, addVars, linkVars,
                    todo, old_size>>
    BY <1>13 DEF EndPass
  <2> QED
    BY <2>1, <2>2 DEF TypeOK, Labels, LinkOK, Following, QueuesOK, QueueCoversPass,
      RollbackShrinks, Linking, Attempting, PairsAtDistance, inputVars, addVars, linkVars
<1>14. CASE UNCHANGED vars
  BY <1>14 DEF vars, TypeOK, Linked, LinkOK, Following, QueuesOK, QueueCoversPass,
      RollbackShrinks, Linking, Attempting, PairsAtDistance, inputVars, addVars, linkVars,
      passVars, runVars, Tries
<1> QED
  BY <1>1, <1>2, <1>3, <1>4, <1>5, <1>6, <1>7, <1>8, <1>9, <1>10, <1>11, <1>12, <1>13, <1>14
     DEF Next, AddCube, ExorLink, Terminated

\* Types, tables and queues are in order in every state.
THEOREM ControlCorrect == Spec => []ControlInv
  BY InitControl, NextControl, PTL DEF Spec

\* Every cube the minimiser handles is a cube over the inputs.
THEOREM TypeCorrect == Spec => []TypeOK
<1>1. ControlInv => TypeOK
  BY DEF ControlInv
<1> QED  BY <1>1, ControlCorrect, PTL

\* Rollbacks and re-queueing leave in each queue only pairs at its distance, so
\* that exorlink() finds as many differing bits as its tables have columns.
THEOREM PairsKeepDistance == Spec => []PairsAtDistance
<1>1. ControlInv => PairsAtDistance
  BY DEF ControlInv
<1> QED  BY <1>1, ControlCorrect, PTL

\* A pass never takes the front of an empty queue.
THEOREM PassCovered == Spec => []QueueCoversPass
<1>1. ControlInv => QueueCoversPass
  BY DEF ControlInv, QueuesOK
<1> QED  BY <1>1, ControlCorrect, PTL

\* A rollback never makes a queue longer.
THEOREM RollbacksShrink == Spec => []RollbackShrinks
<1>1. ControlInv => RollbackShrinks
  BY DEF ControlInv, QueuesOK
<1> QED  BY <1>1, ControlCorrect, PTL

-----------------------------------------------------------------------------
(* What the actions do to the cover. *)

\* The window of buckets that add_cube scans holds every cube at distance 0 or
\* 1 (here: any bucket of a cube that close is in it).
LEMMA WindowHoldsNeighbours ==
  ASSUME NEW c \in Cubes, NEW x \in Cubes, distance(c, x) <= 1
  PROVE  n_lits(x) \in Window(c)
<1>1. /\ n_lits(c) \in Nat /\ n_lits(x) \in Buckets /\ n_lits(x) \in Nat
      /\ distance(c, x) \in Nat /\ distance(x, c) = distance(c, x)
  BY LitsInRange, DifferenceIsWord, NVarsAssumption DEF Buckets
<1>2. n_lits(c) <= n_lits(x) + 1 /\ n_lits(x) <= n_lits(c) + 1
  BY <1>1, LitsDistance
<1> QED  BY <1>1, <1>2 DEF Window, m_max_dist

\* The cubes of the buckets are the cubes of the cover.
LEMMA InCover ==
  ASSUME BucketsByLits, TypeOK, NEW c \in Cubes
  PROVE  c \in Cover <=> Present(c)
  BY LitsInRange DEF Cover, Present, BucketsByLits, Buckets

\* Erasing cubes from their buckets takes them out of the cover.
LEMMA EraseFromCover ==
  ASSUME TypeOK, BucketsByLits, NEW cs, m_cubes' = Erased(cs)
  PROVE  Cover' = Cover \ cs /\ BucketsByLits'
<1>1. \A i \in Buckets : m_cubes'[i] = m_cubes[i] \ cs
  BY DEF Erased
<1> QED  BY <1>1 DEF Cover, BucketsByLits

\* Inserting cubes into their buckets adds them to the cover.
LEMMA InsertInCover ==
  ASSUME TypeOK, BucketsByLits, NEW cs \in SUBSET Cubes, m_cubes' = Inserted(cs)
  PROVE  Cover' = Cover \cup cs /\ BucketsByLits'
<1>1. \A i \in Buckets : m_cubes'[i] = m_cubes[i] \cup {x \in cs : n_lits(x) = i}
  BY DEF Inserted
<1>2. \A x \in cs : n_lits(x) \in Buckets
  BY LitsInRange DEF Buckets
<1> QED  BY <1>1, <1>2 DEF Cover, BucketsByLits

\* Taking one cube out of its bucket takes it out of the cover.
LEMMA RemoveFromCover ==
  ASSUME TypeOK, BucketsByLits, NEW i \in Buckets, NEW x \in m_cubes[i],
         m_cubes' = [m_cubes EXCEPT ![i] = @ \ {x}]
  PROVE  x \in Cover /\ x \in Cubes /\ Cover' = Cover \ {x} /\ BucketsByLits'
<1>1. \A k \in Buckets : m_cubes'[k] = IF k = i THEN m_cubes[i] \ {x} ELSE m_cubes[k]
  BY DEF TypeOK
<1>2. \A k \in Buckets : x \in m_cubes[k] => k = i
  BY DEF BucketsByLits
<1>3. \A k \in Buckets : m_cubes'[k] = m_cubes[k] \ {x}
  BY <1>1, <1>2
<1> QED  BY <1>3 DEF Cover, BucketsByLits, TypeOK

\* A merge takes a cube at distance 1 out of the cover.
LEMMA MergeStep ==
  ASSUME ControlInv, BucketsByLits, AddCubeMerge
  PROVE  /\ BucketsByLits' /\ ~ Attempting' /\ InFlight'
         /\ \E x \in Cover : /\ Cover' = Cover \ {x} /\ distance(cube, x) = 1
                             /\ cube' = merge(cube, x) /\ x \in Cubes
<1>1. PICK i \in Buckets : \E x \in m_cubes[i] :
        /\ distance(cube, x) = 1 /\ cube' = merge(cube, x)
        /\ m_cubes' = [m_cubes EXCEPT ![i] = @ \ {x}]
  BY DEF AddCubeMerge
<1>2. PICK x \in m_cubes[i] :
        /\ distance(cube, x) = 1 /\ cube' = merge(cube, x)
        /\ m_cubes' = [m_cubes EXCEPT ![i] = @ \ {x}]
  BY <1>1
<1>3. pc' = "add_cube" /\ add'
  BY DEF AddCubeMerge
<1> QED  BY <1>2, <1>3, RemoveFromCover DEF ControlInv, Attempting, InFlight

\* A cancellation takes the cube itself out of the cover.
LEMMA CancelStep ==
  ASSUME ControlInv, BucketsByLits, AddCubeCancel
  PROVE  /\ BucketsByLits' /\ ~ Attempting' /\ ~ InFlight'
         /\ cube \in Cover /\ Cover' = Cover \ {cube}
<1>1. PICK i \in Buckets : \E x \in m_cubes[i] :
        distance(cube, x) = 0 /\ m_cubes' = [m_cubes EXCEPT ![i] = @ \ {x}]
  BY DEF AddCubeCancel
<1>2. PICK x \in m_cubes[i] :
        distance(cube, x) = 0 /\ m_cubes' = [m_cubes EXCEPT ![i] = @ \ {x}]
  BY <1>1
<1>3. x = cube
  BY <1>2, DifferenceIsWord DEF ControlInv, TypeOK
<1>4. gain' > 0 /\ pc' \in {"ctor", "attempted", "follow"}
  BY DEF AddCubeCancel, ControlInv, TypeOK
<1>5. BucketsByLits' /\ cube \in Cover /\ Cover' = Cover \ {cube}
  BY <1>2, <1>3, RemoveFromCover DEF ControlInv
<1>6. ~ Attempting' /\ ~ InFlight'
  BY <1>4 DEF Attempting, InFlight
<1> QED  BY <1>5, <1>6

\* A cube that is added is apart from the whole cover, not only from the
\* buckets that were scanned.
LEMMA KeepStep ==
  ASSUME ControlInv, BucketsByLits, AddCubeKeep
  PROVE  /\ BucketsByLits' /\ (Attempting' <=> Attempting) /\ ~ InFlight'
         /\ add <=> ~ Attempting
         /\ \A x \in Cover : distance(cube, x) >= 2
         /\ cube \notin Cover
         /\ Cover' = IF add THEN Cover \cup {cube} ELSE Cover
<1>1. pc = "add_cube" /\ cube \in Cubes /\ add \in BOOLEAN
  BY DEF AddCubeKeep, ControlInv, TypeOK
<1>2. add <=> ~ Attempting
  BY <1>1 DEF Attempting, ControlInv, LinkOK
<1>3. ASSUME NEW x \in Cover  PROVE distance(cube, x) >= 2
  <2>1. x \in Cubes /\ x \in m_cubes[n_lits(x)] /\ distance(cube, x) \in Nat
    BY <1>1, CoverIsFinite, InCover, DifferenceIsWord DEF ControlInv, Present
  <2>2. CASE distance(cube, x) <= 1
    <3>1. x \in Scanned(cube)
      BY <1>1, <2>1, <2>2, WindowHoldsNeighbours DEF Scanned
    <3> QED  BY <2>1, <2>2, <3>1 DEF AddCubeKeep
  <2> QED  BY <2>1, <2>2
<1>4. cube \notin Cover
  <2>1. distance(cube, cube) = 0
    BY <1>1, DifferenceIsWord
  <2> QED  BY <1>3, <2>1
<1>5. /\ Cover' = IF add THEN Cover \cup {cube} ELSE Cover
      /\ BucketsByLits'
  <2>1. CASE add
    BY <1>1, <2>1, InsertInCover DEF AddCubeKeep, ControlInv
  <2>2. CASE ~ add
    BY <2>2 DEF AddCubeKeep, Cover, BucketsByLits
  <2> QED  BY <2>1, <2>2
<1>6. (Attempting' <=> Attempting) /\ ~ InFlight'
  BY <1>1, <1>2 DEF AddCubeKeep, Attempting, InFlight, ControlInv, TypeOK, LinkOK, addVars
<1> QED  BY <1>2, <1>3, <1>4, <1>5, <1>6

\* exorlink2 and exorlink3 take both cubes of a pair out of the cover.
LEMMA TakeStep ==
  ASSUME ControlInv, BucketsByLits, TakePair
  PROVE  /\ BucketsByLits' /\ ~ Attempting /\ Attempting' /\ ~ InFlight /\ pc = "exorlink"
         /\ pair'[1] \in Cover /\ pair'[2] \in Cover
         /\ Cover' = Cover \ {pair'[1], pair'[2]}
<1>1. pair' \in Cubes \X Cubes
  BY NextControl DEF Next, ExorLink, ControlInv, TypeOK
<1>2. pc = "exorlink" /\ pc' = "attempt"
  BY DEF TakePair, PopPair
<1>3. m_cubes' = Erased({pair'[1], pair'[2]})
  BY DEF TakePair
<1> QED
  BY <1>1, <1>2, <1>3, EraseFromCover, InCover
     DEF TakePair, ControlInv, Attempting, InFlight

\* A pair given up is put back.
LEMMA GiveUpStep ==
  ASSUME ControlInv, BucketsByLits, GiveUp
  PROVE  /\ BucketsByLits' /\ Attempting /\ ~ Attempting' /\ ~ InFlight'
         /\ pc' = "exorlink"
         /\ Cover' = Cover \cup {pair[1], pair[2]}
<1>1. {pair[1], pair[2]} \in SUBSET Cubes
  BY DEF ControlInv, TypeOK
<1>2. pc = "attempted" /\ gain = 0 /\ pc' = "exorlink"
  BY DEF GiveUp
<1>3. m_cubes' = Inserted({pair[1], pair[2]})
  BY DEF GiveUp
<1> QED
  BY <1>1, <1>2, <1>3, InsertInCover DEF ControlInv, Attempting, InFlight

\* The other actions leave the cover alone.
Elsewhere == \/ Load \/ Loaded \/ StartPass \/ DropPair \/ Attempt \/ AttemptGained
             \/ TryNextCube \/ TryNextGroup \/ AddOther \/ Replaced \/ EndPass
             \/ UNCHANGED vars

\* The other steps leave the cover alone.
LEMMA ElsewhereStep ==
  ASSUME ControlInv, BucketsByLits, Elsewhere
  PROVE  /\ m_cubes' = m_cubes /\ Cover' = Cover /\ BucketsByLits' /\ pair' = pair
         /\ Attempting' <=> Attempting
<1>1. m_cubes' = m_cubes /\ pair' = pair
  BY DEF Elsewhere, Load, Loaded, StartPass, DropPair, Attempt, AttemptGained, TryNextCube,
    TryNextGroup, AddOther, Replaced, EndPass, vars, linkVars
<1>2. Cover' = Cover /\ BucketsByLits'
  BY <1>1 DEF Cover, BucketsByLits
<1>3. Attempting' <=> Attempting
  BY DEF Attempting, Elsewhere, Load, Loaded, StartPass, DropPair, PopPair, Attempt,
    AttemptGained, TryNextCube, TryNextGroup, AddOther, Replaced, EndPass, vars, addVars,
    CallAddCube, ControlInv, TypeOK
<1> QED  BY <1>1, <1>2, <1>3

-----------------------------------------------------------------------------
(* The cubes of the cover stay apart. *)

\* Every step keeps the cubes of the cover apart and in their buckets.
LEMMA NextCover == CoverInv /\ [Next]_vars => CoverInv'
<1> SUFFICES ASSUME CoverInv, [Next]_vars PROVE CoverInv'
  OBVIOUS
<1>1. ControlInv /\ BucketsByLits /\ HeldApart /\ ControlInv'
  BY NextControl DEF CoverInv
<1>2. Cover \subseteq Cubes /\ Held \subseteq Cubes
  BY <1>1, CoverIsFinite DEF ControlInv, TypeOK, Held
<1> SUFFICES BucketsByLits' /\ HeldApart'
  BY <1>1 DEF CoverInv
<1>3. CASE AddCubeMerge
  BY <1>1, <1>3, MergeStep DEF HeldApart, Held
<1>4. CASE AddCubeCancel
  BY <1>1, <1>4, CancelStep DEF HeldApart, Held
<1>5. CASE AddCubeKeep
  <2>1. pair' = pair
    BY <1>5 DEF AddCubeKeep, linkVars
  <2>2. Held' = Held
    BY <1>1, <1>5, <2>1, KeepStep DEF Held
  <2>3. CASE ~ add
    BY <1>1, <1>5, <2>2, <2>3, KeepStep DEF HeldApart
  <2>4. CASE add
    <3>1. Held = {} /\ Held' = {}
      BY <1>1, <1>5, <2>2, <2>4, KeepStep DEF Held
    <3>2. \A x \in Cover : distance(cube, x) >= 2 /\ distance(x, cube) >= 2
      BY <1>1, <1>2, <1>5, KeepStep, DifferenceIsWord DEF ControlInv, TypeOK
    <3> QED  BY <1>1, <1>5, <2>4, <3>1, <3>2, KeepStep DEF HeldApart
  <2> QED  BY <2>3, <2>4
<1>6. CASE TakePair
  BY <1>1, <1>6, TakeStep DEF HeldApart, Held
<1>7. CASE GiveUp
  BY <1>1, <1>7, GiveUpStep DEF HeldApart, Held
<1>8. CASE Elsewhere
  BY <1>1, <1>8, ElsewhereStep DEF HeldApart, Held
<1> QED
  BY <1>3, <1>4, <1>5, <1>6, <1>7, <1>8
     DEF Next, AddCube, ExorLink, Terminated, Elsewhere

\* The empty cover is in order.
LEMMA InitCover == Init => CoverInv
<1> SUFFICES ASSUME Init PROVE CoverInv
  OBVIOUS
<1>1. Cover = {} /\ Held = {}
  BY DEF Init, Cover, Held, Attempting
<1> QED  BY <1>1, InitControl DEF CoverInv, BucketsByLits, HeldApart, Init

\* No two cubes of the cover can be merged or cancelled, at any time.
THEOREM CoverApart == Spec => []Apart
<1>1. CoverInv => Apart
  BY DEF CoverInv, HeldApart, Apart
<1> QED  BY <1>1, InitCover, NextCover, PTL DEF Spec

-----------------------------------------------------------------------------
(* The function of the cover. *)

\* Two or three cubes replace a pair.
LEMMA TriesFinite ==
  ASSUME TypeOK
  PROVE  IsFiniteSet(Tries) /\ (left \subseteq Tries => IsFiniteSet(left))
<1>1. dist \in Int
  BY DistIsTwoOrThree DEF TypeOK, dist
<1>2. IsFiniteSet(Tries)
  BY <1>1, FS_Interval DEF Tries
<1> QED  BY <1>2, FS_Subset

\* The linked cubes stay the same while they are being added.
LEMMA LinkedSame ==
  ASSUME UNCHANGED <<pair, group, pass>>
  PROVE  Tries' = Tries /\ Linked' = Linked
  BY DEF Linked, Tries, dist

\* The sum of what remains when one linked cube leaves the others.
LEMMA OthersWithout ==
  ASSUME TypeOK, NEW I \in SUBSET Tries, NEW j \in I
  PROVE  EsopOfSeq(Linked, I \ {j}) = SymDiff(EsopOfSeq(Linked, I), OnSet(Linked[j]))
<1>1. IsFiniteSet(I)
  BY TriesFinite, FS_Subset
<1> QED  BY <1>1, EsopOfSeqRemove

\* What is owed while a pair is attempted is the sum of all its linked cubes.
LEMMA OwedByAttempt ==
  ASSUME ControlInv, Attempting
  PROVE  /\ Owed = EsopOfSeq(Linked, Tries)
         /\ tried \in Tries
         /\ EsopOfSeq(Linked, Tries \ {tried}) = SymDiff(Owed, OnSet(Linked[tried]))
<1>1. Linking
  BY DEF Attempting, Linking
<1>2. Owed = EsopOfSeq(Linked, Tries) /\ tried \in Tries
  BY <1>1, LinkedSum DEF ControlInv, LinkOK, Owed
<1> QED  BY <1>2, OthersWithout DEF ControlInv

\* The function of cover and cubes in flight only changes when a cube is read.
Total == SymDiff(EsopOf(Cover), Owed)

\* Merging two cubes keeps the function: the merged cube is their sum.
LEMMA MergeKeepsTotal ==
  ASSUME ControlInv, BucketsByLits, AddCubeMerge
  PROVE  Total' = Total
<1>1. PICK x \in Cover : /\ Cover' = Cover \ {x} /\ distance(cube, x) = 1
                        /\ cube' = merge(cube, x) /\ x \in Cubes
  BY MergeStep
<1>2. EsopOf(Cover') = SymDiff(EsopOf(Cover), OnSet(x))
  BY <1>1, CoverIsFinite, EsopOfRemove DEF ControlInv
<1>3. OnSet(cube') = SymDiff(OnSet(cube), OnSet(x))
  BY <1>1, MergeOnSet DEF ControlInv, TypeOK
<1>4. /\ pc = "add_cube" /\ pc' = pc /\ caller' = caller /\ left' = left /\ tried' = tried
      /\ Linked' = Linked /\ Tries' = Tries
  BY LinkedSame DEF AddCubeMerge, linkVars, passVars
<1>5. Owed' = SymDiff(OnSet(cube'), EsopOfSeq(Linked, Others))
  BY <1>4, MergeStep DEF Owed, Others, Following
<1>6. Owed = SymDiff(OnSet(cube), EsopOfSeq(Linked, Others))
  <2>1. CASE Attempting
    <3>1. caller = "attempted" /\ cube = Linked[tried] /\ Others = Tries \ {tried}
      BY <1>4, <2>1 DEF Attempting, ControlInv, LinkOK, Others
    <3> QED  BY <2>1, <3>1, OwedByAttempt DEF SymDiff
  <2>2. CASE ~ Attempting
    BY <1>4, <2>2 DEF Owed, InFlight
  <2> QED  BY <2>1, <2>2
<1> QED  BY <1>2, <1>3, <1>5, <1>6 DEF Total, SymDiff

\* Cancelling two equal cubes keeps the function.
LEMMA CancelKeepsTotal ==
  ASSUME ControlInv, BucketsByLits, AddCubeCancel
  PROVE  Total' = Total
<1>1. EsopOf(Cover') = SymDiff(EsopOf(Cover), OnSet(cube))
  BY CancelStep, CoverIsFinite, EsopOfRemove DEF ControlInv
<1>2. /\ pc = "add_cube" /\ pc' = caller /\ caller \in {"ctor", "attempted", "follow"}
      /\ caller' = caller /\ left' = left /\ tried' = tried
      /\ Linked' = Linked /\ Tries' = Tries
  BY LinkedSame DEF AddCubeCancel, linkVars, passVars, ControlInv, TypeOK
<1>3. Owed' = EsopOfSeq(Linked, Others)
  <2>1. Others' = Others
    BY <1>2 DEF Others, Following
  <2> QED  BY <1>2, <2>1, CancelStep DEF Owed, SymDiff
<1>4. Owed = SymDiff(OnSet(cube), EsopOfSeq(Linked, Others))
  <2>1. CASE Attempting
    <3>1. caller = "attempted" /\ cube = Linked[tried] /\ Others = Tries \ {tried}
      BY <1>2, <2>1 DEF Attempting, ControlInv, LinkOK, Others
    <3> QED  BY <2>1, <3>1, OwedByAttempt DEF SymDiff
  <2>2. CASE ~ Attempting
    BY <1>2, <2>2 DEF Owed, InFlight
  <2> QED  BY <2>1, <2>2
<1> QED  BY <1>1, <1>3, <1>4 DEF Total, SymDiff

\* Inserting a cube, or failing an attempt with it, keeps the function.
LEMMA KeepKeepsTotal ==
  ASSUME ControlInv, BucketsByLits, AddCubeKeep
  PROVE  Total' = Total
<1>1. /\ pc = "add_cube" /\ pc' = caller /\ caller \in {"ctor", "attempted", "follow"}
      /\ caller' = caller /\ left' = left /\ tried' = tried /\ pair' = pair
      /\ Linked' = Linked /\ Tries' = Tries /\ cube \in Cubes
  BY LinkedSame DEF AddCubeKeep, addVars, linkVars, passVars, ControlInv, TypeOK
<1>2. CASE Attempting
  <2>1. Owed' = Owed /\ Cover' = Cover
    BY <1>1, <1>2, KeepStep DEF Owed
  <2> QED  BY <2>1 DEF Total
<1>3. CASE ~ Attempting
  <2>1. Cover' = Cover \cup {cube} /\ cube \notin Cover
    BY <1>3, KeepStep
  <2>2. EsopOf(Cover') = SymDiff(EsopOf(Cover), OnSet(cube))
    BY <1>1, <2>1, CoverIsFinite, EsopOfAdd DEF ControlInv
  <2>3. Others' = Others
    BY <1>1 DEF Others, Following
  <2>4. Owed' = EsopOfSeq(Linked, Others)
    BY <1>1, <1>3, <2>3, KeepStep DEF Owed, SymDiff
  <2>5. Owed = SymDiff(OnSet(cube), EsopOfSeq(Linked, Others))
    BY <1>1, <1>3 DEF Owed, InFlight
  <2> QED  BY <2>2, <2>4, <2>5 DEF Total, SymDiff
<1> QED  BY <1>2, <1>3

\* Where no cube is in flight.
LEMMA NothingOwed ==
  ASSUME ~ Attempting, ~ InFlight, Others = {}
  PROVE  Owed = {}
  BY EsopOfSeqEmpty DEF Owed, SymDiff

\* Taking a pair out keeps the function: the pair is owed.
LEMMA TakeKeepsTotal ==
  ASSUME ControlInv, BucketsByLits, TakePair, ControlInv'
  PROVE  Total' = Total
<1> DEFINE a == pair'[1]
           b == pair'[2]
<1>1. /\ a \in Cover /\ b \in Cover /\ Cover' = (Cover \ {a}) \ {b}
      /\ ~ Attempting /\ Attempting' /\ ~ InFlight /\ pc = "exorlink"
  BY TakeStep
<1>2. Cover \subseteq Cubes /\ a \in Cubes /\ b \in Cubes
  BY <1>1, CoverIsFinite DEF ControlInv
<1>3. a # b
  <2>1. Linking' /\ dist' \in {2, 3}
    BY <1>1, DistIsTwoOrThree DEF Attempting, Linking, ControlInv, TypeOK, dist
  <2>2. distance(a, b) = dist'
    BY <2>1 DEF ControlInv, LinkOK
  <2> QED  BY <1>2, <2>1, <2>2, DifferenceIsWord
<1>4. /\ EsopOf(Cover \ {a}) = SymDiff(EsopOf(Cover), OnSet(a))
      /\ EsopOf((Cover \ {a}) \ {b}) = SymDiff(EsopOf(Cover \ {a}), OnSet(b))
  BY <1>1, <1>2, <1>3, EsopOfRemove
<1>5. Owed = {}
  BY <1>1, NothingOwed DEF Others, Following
<1>6. Owed' = SymDiff(OnSet(a), OnSet(b))
  BY <1>1 DEF Owed
<1> HIDE DEF a, b
<1> QED  BY <1>1, <1>4, <1>5, <1>6 DEF Total, SymDiff

\* Putting a pair back keeps the function.
LEMMA GiveUpKeepsTotal ==
  ASSUME CoverInv, GiveUp
  PROVE  Total' = Total
<1> DEFINE a == pair[1]
           b == pair[2]
<1>1. /\ Cover' = (Cover \cup {a}) \cup {b} /\ pc' = "exorlink"
      /\ ~ Attempting' /\ Attempting /\ ~ InFlight'
  BY GiveUpStep DEF CoverInv
<1>2. /\ Cover \subseteq Cubes /\ a \in Cubes /\ b \in Cubes
      /\ a \notin Cover /\ b \notin Cover
  BY <1>1, CoverIsFinite DEF CoverInv, ControlInv, TypeOK, HeldApart, Held
<1>3. a # b
  <2>1. Linking /\ dist \in {2, 3}
    BY <1>1, DistIsTwoOrThree DEF Attempting, Linking, CoverInv, ControlInv, TypeOK, dist
  <2>2. distance(a, b) = dist
    BY <2>1 DEF CoverInv, ControlInv, LinkOK
  <2> QED  BY <1>2, <2>1, <2>2, DifferenceIsWord
<1>4. /\ EsopOf(Cover \cup {a}) = SymDiff(EsopOf(Cover), OnSet(a))
      /\ EsopOf((Cover \cup {a}) \cup {b}) = SymDiff(EsopOf(Cover \cup {a}), OnSet(b))
  BY <1>2, <1>3, EsopOfAdd
<1>5. Owed' = {}
  <2>1. Others' = {}
    BY <1>1 DEF Others, Following
  <2> QED  BY <1>1, <2>1, EsopOfSeqEmpty DEF Owed, SymDiff
<1>6. Owed = SymDiff(OnSet(a), OnSet(b))
  BY <1>1 DEF Owed
<1> HIDE DEF a, b
<1> QED  BY <1>1, <1>4, <1>5, <1>6 DEF Total, SymDiff

\* Reading a cube adds it to the function.
LEMMA LoadAddsCube ==
  ASSUME ControlInv, BucketsByLits, Load
  PROVE  /\ Total' = SymDiff(Total, OnSet(original[loaded + 1]))
         /\ Loading' = SymDiff(Loading, OnSet(original[loaded + 1]))
<1>1. /\ pc = "ctor" /\ pc' = "add_cube" /\ caller' = "ctor" /\ add' = TRUE
      /\ loaded' = loaded + 1 /\ original' = original /\ cube' = original[loaded + 1]
      /\ loaded \in Nat
  BY OriginalCubes DEF Load, CallAddCube, inputVars, ControlInv, TypeOK
<1>2. Owed = {}
  BY <1>1, NothingOwed DEF Attempting, InFlight, Others, Following
<1>3. Owed' = OnSet(cube')
  <2>1. ~ Attempting' /\ InFlight' /\ Others' = {}
    BY <1>1 DEF Attempting, InFlight, Others, Following
  <2> QED  BY <2>1, EsopOfSeqEmpty DEF Owed, SymDiff
<1>4. Cover' = Cover
  BY ElsewhereStep DEF Elsewhere
<1>5. Loading' = SymDiff(Loading, OnSet(original[loaded + 1]))
  <2>1. 1 .. loaded' = (1 .. loaded) \cup {loaded + 1} /\ loaded + 1 \notin 1 .. loaded
    BY <1>1
  <2>2. IsFiniteSet(1 .. loaded)
    BY <1>1, FS_Interval
  <2> QED  BY <1>1, <2>1, <2>2, EsopOfSeqAdd DEF Loading
<1> QED  BY <1>1, <1>2, <1>3, <1>4, <1>5 DEF Total, SymDiff

\* Starting an attempt or taking the next cube only moves a cube into flight.
LEMMA ElsewhereKeepsTotal ==
  ASSUME ControlInv, BucketsByLits, Elsewhere, ~ Load
  PROVE  Total' = Total
<1>1. Cover' = Cover /\ pair' = pair /\ (Attempting' <=> Attempting)
  BY ElsewhereStep
<1> SUFFICES Owed' = Owed
  BY <1>1 DEF Total
<1>2. CASE Attempting
  BY <1>1, <1>2 DEF Owed
<1>3. CASE ~ Attempting /\ AttemptGained
  <2>1. /\ pc = "attempted" /\ pc' = "follow" /\ left' = Tries \ {tried}
        /\ Linked' = Linked
    BY <1>3, LinkedSame DEF AttemptGained, passVars
  <2>2. ~ InFlight /\ ~ InFlight' /\ Others' = Others
    BY <2>1 DEF InFlight, Others, Following
  <2> QED  BY <1>1, <1>3, <2>1, <2>2 DEF Owed
<1>4. CASE ~ Attempting /\ AddOther
  <2> DEFINE m == Min(left)
  <2>1. /\ pc = "follow" /\ pc' = "add_cube" /\ caller' = "follow"
        /\ left' = left \ {m} /\ left # {} /\ cube' = Linked[m] /\ Linked' = Linked
    BY <1>4, LinkedSame DEF AddOther, CallAddCube, passVars
  <2>2. left \in SUBSET Tries /\ m \in left
    BY <2>1, MinInSet DEF ControlInv, LinkOK, Following, TypeOK
  <2>3. EsopOfSeq(Linked, left \ {m}) = SymDiff(EsopOfSeq(Linked, left), OnSet(Linked[m]))
    BY <2>2, OthersWithout DEF ControlInv
  <2>4. Owed = EsopOfSeq(Linked, left)
    BY <1>4, <2>1 DEF Owed, InFlight, Others, Following, SymDiff
  <2>5. Owed' = SymDiff(OnSet(cube'), EsopOfSeq(Linked, left \ {m}))
    BY <1>1, <1>4, <2>1 DEF Owed, InFlight, Others, Following
  <2> HIDE DEF m
  <2> QED  BY <2>1, <2>3, <2>4, <2>5 DEF SymDiff
<1>5. CASE ~ Attempting /\ (Loaded \/ StartPass \/ DropPair \/ Replaced \/ EndPass)
  <2>1. /\ pc \in {"ctor", "run", "exorlink"} \/ (pc = "follow" /\ left = {})
        /\ pc' \in {"run", "exorlink", "done"}
    BY <1>5 DEF Loaded, StartPass, DropPair, PopPair, Replaced, EndPass
  <2>2. ~ InFlight /\ ~ InFlight' /\ Others = {} /\ Others' = {} /\ ~ Attempting'
    BY <1>1, <1>5, <2>1 DEF InFlight, Others, Following
  <2> QED  BY <1>5, <2>2, EsopOfSeqEmpty DEF Owed, SymDiff
<1>6. CASE UNCHANGED vars
  <2>1. UNCHANGED <<pc, caller, left, tried, pair, group, pass, cube, add, gain>>
    BY <1>6 DEF vars, addVars, linkVars, passVars
  <2>2. Linked' = Linked /\ Tries' = Tries
    BY <2>1, LinkedSame
  <2> QED  BY <2>1, <2>2 DEF Owed, InFlight, Attempting, Others, Following
<1>7. CASE Attempt \/ TryNextCube \/ TryNextGroup
  <2>1. Attempting
    BY <1>7 DEF Attempt, TryNextCube, TryNextGroup, Attempting
  <2> QED  BY <1>2, <2>1
<1> QED  BY <1>2, <1>3, <1>4, <1>5, <1>6, <1>7 DEF Elsewhere

\* Every step keeps the function of the cover and of what is owed.
LEMMA NextFunction == CoverInv /\ FunctionKept /\ [Next]_vars => FunctionKept'
<1> SUFFICES ASSUME CoverInv, FunctionKept, [Next]_vars PROVE FunctionKept'
  OBVIOUS
<1>1. /\ ControlInv /\ BucketsByLits /\ ControlInv'
      /\ Total = Loading
  BY NextControl DEF CoverInv, FunctionKept, Total
<1> SUFFICES Total' = Loading'
  BY DEF FunctionKept, Total
<1>2. CASE Load
  BY <1>1, <1>2, LoadAddsCube
<1>3. CASE ~ Load
  <2>1. loaded' = loaded /\ original' = original
    BY <1>3 DEF Next, AddCube, AddCubeMerge, AddCubeCancel, AddCubeKeep, Loaded, ExorLink,
      StartPass, DropPair, TakePair, Attempt, AttemptGained, TryNextCube, TryNextGroup,
      GiveUp, AddOther, Replaced, EndPass, Terminated, vars, inputVars
  <2>2. Loading' = Loading
    BY <2>1 DEF Loading
  <2>3. Total' = Total
    BY <1>1, <1>3, MergeKeepsTotal, CancelKeepsTotal, KeepKeepsTotal, TakeKeepsTotal,
       GiveUpKeepsTotal, ElsewhereKeepsTotal
       DEF Next, AddCube, ExorLink, Terminated, Elsewhere
  <2> QED  BY <1>1, <2>2, <2>3
<1> QED  BY <1>2, <1>3

\* No cubes read, no cubes in the cover.
LEMMA InitFunction == Init => FunctionKept
<1> SUFFICES ASSUME Init PROVE FunctionKept
  OBVIOUS
<1>1. Cover = {}
  BY DEF Init, Cover
<1>2. ~ Attempting /\ ~ InFlight /\ Others = {}
  BY DEF Init, Attempting, InFlight, Others, Following
<1>3. 1 .. loaded = {}
  BY DEF Init
<1>4. Loading = {}
  BY <1>3, EsopOfSeqEmpty DEF Loading
<1> QED
  BY <1>1, <1>2, <1>4, NothingOwed, EsopOfEmpty DEF FunctionKept, SymDiff

\* The minimiser never changes the function of the cover.
THEOREM FunctionPreserved == Spec => []FunctionKept
<1>1. Init => CoverInv /\ FunctionKept
  BY InitCover, InitFunction
<1>2. (CoverInv /\ FunctionKept) /\ [Next]_vars => (CoverInv /\ FunctionKept)'
  BY NextCover, NextFunction
<1> QED  BY <1>1, <1>2, PTL DEF Spec

\* Minimising starts after the last cube has been read.
LEMMA NextLoaded == ControlInv /\ AllLoaded /\ [Next]_vars => AllLoaded'
<1> SUFFICES ASSUME ControlInv, AllLoaded, [Next]_vars PROVE AllLoaded'
  OBVIOUS
<1>1. CASE Load \/ Loaded
  BY <1>1 DEF Load, Loaded, CallAddCube, AllLoaded, Linking, inputVars
<1>2. CASE AddCube
  BY <1>2 DEF AddCube, AddCubeMerge, AddCubeCancel, AddCubeKeep, AllLoaded, Linking,
    inputVars, addVars, ControlInv, TypeOK
<1>3. CASE ExorLink \/ EndPass
  <2>1. loaded' = loaded /\ original' = original
    BY <1>3 DEF ExorLink, StartPass, DropPair, TakePair, Attempt, AttemptGained, TryNextCube,
      TryNextGroup, GiveUp, AddOther, Replaced, EndPass, inputVars
  <2>2. pc \in {"run", "exorlink"} \/ Linking
    BY <1>3 DEF ExorLink, StartPass, DropPair, TakePair, PopPair, Attempt, AttemptGained,
      TryNextCube, TryNextGroup, GiveUp, AddOther, Replaced, EndPass, Linking
  <2> QED  BY <2>1, <2>2 DEF AllLoaded
<1>4. CASE UNCHANGED vars
  BY <1>4 DEF vars, AllLoaded, Linking, inputVars, addVars
<1> QED  BY <1>1, <1>2, <1>3, <1>4 DEF Next, Terminated

\* The result of minimising an ESOP represents the function of the input, as the
\* documentation of the tool promises.
THEOREM ResultCorrect ==
  ASSUME Kinds = {"ESOP"}
  PROVE  Spec => []RepresentsSameFunction
<1> DEFINE J == CoverInv /\ FunctionKept /\ AllLoaded
<1>1. Init => J
  BY InitCover, InitFunction DEF Init, AllLoaded, Linking
<1>2. J /\ [Next]_vars => J'
  BY NextCover, NextFunction, NextLoaded DEF CoverInv
<1>3. J => RepresentsSameFunction
  <2> SUFFICES ASSUME J, pc = "done" PROVE ResultRepresents = Represented(original)
    BY DEF RepresentsSameFunction
  <2>1. kind = "ESOP" /\ original \in Seq(Cubes)
    BY OriginalCubes DEF CoverInv, ControlInv, TypeOK
  <2>2. Owed = {}
    BY NothingOwed DEF Attempting, InFlight, Others, Following
  <2>3. Loading = EsopOfSeq(original, DOMAIN original)
    <3>1. DOMAIN original = 1 .. Len(original)
      BY <2>1
    <3> QED  BY <3>1 DEF Loading, AllLoaded
  <2> QED
    BY <2>1, <2>2, <2>3 DEF FunctionKept, ResultRepresents, Represented, SymDiff
<1> HIDE DEF J
<1> QED  BY <1>1, <1>2, <1>3, PTL DEF Spec

-----------------------------------------------------------------------------
(* The number of cubes. *)

\* Only finitely many cubes are still to be added.
LEMMA OthersFinite ==
  ASSUME ControlInv
  PROVE  IsFiniteSet(Others) /\ Cardinality(Others) \in Nat
<1>1. Others \subseteq Tries \/ (Others = left /\ Following)
  BY DEF Others
<1>2. Others \subseteq Tries
  BY <1>1 DEF ControlInv, LinkOK
<1> QED  BY <1>2, TriesFinite, FS_Subset, FS_CardinalityType DEF ControlInv

\* Apart from one cube in turn, a pair has dist - 1 <= 2 linked cubes.
LEMMA OthersOfAttempt ==
  ASSUME ControlInv, Attempting
  PROVE  Cardinality(Tries \ {tried}) \in 0 .. 2
<1>1. Linking
  BY DEF Attempting, Linking
<1>2. /\ tried \in Tries /\ dist \in {2, 3} /\ Tries = 1 .. dist
  BY <1>1, LinkedSum DEF ControlInv, LinkOK
<1>3. IsFiniteSet(Tries) /\ Cardinality(Tries) = dist
  BY <1>2, FS_Interval
<1>4. Cardinality(Tries \ {tried}) = Cardinality(Tries) - 1
  BY <1>2, <1>3, FS_RemoveElement
<1>5. Cardinality(Tries \ {tried}) = dist - 1
  BY <1>3, <1>4
<1> QED  BY <1>2, <1>5

\* The number of cubes is a number.
LEMMA CountIsNat ==
  ASSUME ControlInv
  PROVE  CubeCount \in Nat
  BY CoverIsFinite, OthersFinite DEF ControlInv, CubeCount, n_cubes

\* A merge makes the number of cubes smaller.
LEMMA MergeCount ==
  ASSUME ControlInv, BucketsByLits, AddCubeMerge
  PROVE  CubeCount' <= CubeCount
<1>1. PICK x \in Cover : Cover' = Cover \ {x}
  BY MergeStep
<1>2. Cardinality(Cover') = Cardinality(Cover) - 1 /\ Cardinality(Cover) \in Nat
  BY <1>1, CoverIsFinite, FS_RemoveElement, FS_CardinalityType DEF ControlInv
<1>3. /\ pc = "add_cube" /\ pc' = pc /\ caller' = caller /\ left' = left /\ tried' = tried
      /\ Tries' = Tries
  BY LinkedSame DEF AddCubeMerge, linkVars, passVars
<1>4. Others' = Others
  BY <1>3 DEF Others, Following
<1>5. CubeCount' = Cardinality(Cover) - 1 + (Cardinality(Others) + 1)
  BY <1>2, <1>4, MergeStep DEF CubeCount
<1>6. CASE Attempting
  <2>1. Others = Tries \ {tried}
    BY <1>3, <1>6 DEF Attempting, Others
  <2> QED  BY <1>2, <1>5, <1>6, <2>1, OthersOfAttempt DEF CubeCount
<1>7. CASE ~ Attempting
  BY <1>2, <1>3, <1>5, <1>7, OthersFinite DEF CubeCount, InFlight
<1> QED  BY <1>6, <1>7

\* A cancellation makes the number of cubes smaller.
LEMMA CancelCount ==
  ASSUME ControlInv, BucketsByLits, AddCubeCancel
  PROVE  CubeCount' <= CubeCount
<1>1. Cardinality(Cover') = Cardinality(Cover) - 1 /\ Cardinality(Cover) \in Nat
  BY CancelStep, CoverIsFinite, FS_RemoveElement, FS_CardinalityType DEF ControlInv
<1>2. /\ pc = "add_cube" /\ pc' = caller /\ caller \in {"ctor", "attempted", "follow"}
      /\ caller' = caller /\ left' = left /\ tried' = tried /\ Tries' = Tries
  BY LinkedSame DEF AddCubeCancel, linkVars, passVars, ControlInv, TypeOK
<1>3. Others' = Others
  BY <1>2 DEF Others, Following
<1>4. CubeCount' = Cardinality(Cover) - 1 + Cardinality(Others)
  BY <1>1, <1>3, CancelStep, OthersFinite DEF CubeCount
<1>5. CASE Attempting
  <2>1. Others = Tries \ {tried}
    BY <1>2, <1>5 DEF Attempting, Others
  <2> QED  BY <1>1, <1>4, <1>5, <2>1, OthersOfAttempt DEF CubeCount
<1>6. CASE ~ Attempting
  BY <1>1, <1>2, <1>4, <1>6, OthersFinite DEF CubeCount, InFlight
<1> QED  BY <1>5, <1>6

\* Inserting the cube in flight does not change the number of cubes.
LEMMA KeepCount ==
  ASSUME ControlInv, BucketsByLits, AddCubeKeep
  PROVE  CubeCount' = CubeCount
<1>1. /\ pc = "add_cube" /\ pc' = caller /\ caller \in {"ctor", "attempted", "follow"}
      /\ caller' = caller /\ left' = left /\ tried' = tried /\ Tries' = Tries
  BY LinkedSame DEF AddCubeKeep, addVars, linkVars, passVars, ControlInv, TypeOK
<1>2. CASE Attempting
  BY <1>2, KeepStep DEF CubeCount
<1>3. CASE ~ Attempting
  <2>1. Cover' = Cover \cup {cube} /\ cube \notin Cover
    BY <1>3, KeepStep
  <2>2. Cardinality(Cover') = Cardinality(Cover) + 1 /\ Cardinality(Cover) \in Nat
    BY <2>1, CoverIsFinite, FS_AddElement, FS_CardinalityType DEF ControlInv
  <2>3. Others' = Others
    BY <1>1 DEF Others, Following
  <2> QED  BY <1>1, <1>3, <2>2, <2>3, KeepStep, OthersFinite DEF CubeCount, InFlight
<1> QED  BY <1>2, <1>3

\* A pair under attempt still counts.
LEMMA TakeCount ==
  ASSUME ControlInv, BucketsByLits, TakePair, ControlInv'
  PROVE  CubeCount' = CubeCount
<1> DEFINE a == pair'[1]
           b == pair'[2]
<1>1. /\ a \in Cover /\ b \in Cover /\ Cover' = (Cover \ {a}) \ {b}
      /\ ~ Attempting /\ Attempting' /\ ~ InFlight /\ pc = "exorlink"
  BY TakeStep
<1>2. a \in Cubes /\ b \in Cubes /\ IsFiniteSet(Cover)
  BY <1>1, CoverIsFinite DEF ControlInv
<1>3. a # b
  <2>1. Linking' /\ dist' \in {2, 3}
    BY <1>1, DistIsTwoOrThree DEF Attempting, Linking, ControlInv, TypeOK, dist
  <2>2. distance(a, b) = dist'
    BY <2>1 DEF ControlInv, LinkOK
  <2> QED  BY <1>2, <2>1, <2>2, DifferenceIsWord
<1>4. IsFiniteSet(Cover \ {a}) /\ Cardinality(Cover \ {a}) = Cardinality(Cover) - 1
  BY <1>1, <1>2, FS_RemoveElement
<1>5. Cardinality(Cover') = Cardinality(Cover) - 1 - 1
  BY <1>1, <1>3, <1>4, FS_RemoveElement
<1>6. Others = {} /\ Cardinality({}) = 0 /\ Cardinality(Cover) \in Nat
  BY <1>1, <1>2, FS_EmptySet, FS_CardinalityType DEF Others, Following
<1> HIDE DEF a, b
<1> QED  BY <1>1, <1>5, <1>6 DEF CubeCount

\* Putting a pair back does not change the number of cubes.
LEMMA GiveUpCount ==
  ASSUME CoverInv, GiveUp
  PROVE  CubeCount' = CubeCount
<1> DEFINE a == pair[1]
           b == pair[2]
<1>1. /\ Cover' = (Cover \cup {a}) \cup {b} /\ pc' = "exorlink"
      /\ ~ Attempting' /\ Attempting /\ ~ InFlight'
  BY GiveUpStep DEF CoverInv
<1>2. /\ IsFiniteSet(Cover) /\ a \in Cubes /\ b \in Cubes
      /\ a \notin Cover /\ b \notin Cover
  BY <1>1, CoverIsFinite DEF CoverInv, ControlInv, TypeOK, HeldApart, Held
<1>3. a # b
  <2>1. Linking /\ dist \in {2, 3}
    BY <1>1, DistIsTwoOrThree DEF Attempting, Linking, CoverInv, ControlInv, TypeOK, dist
  <2>2. distance(a, b) = dist
    BY <2>1 DEF CoverInv, ControlInv, LinkOK
  <2> QED  BY <1>2, <2>1, <2>2, DifferenceIsWord
<1>4. IsFiniteSet(Cover \cup {a}) /\ Cardinality(Cover \cup {a}) = Cardinality(Cover) + 1
  BY <1>2, FS_AddElement
<1>5. Cardinality(Cover') = Cardinality(Cover) + 1 + 1
  BY <1>1, <1>2, <1>3, <1>4, FS_AddElement
<1>6. Others' = {} /\ Cardinality({}) = 0 /\ Cardinality(Cover) \in Nat
  BY <1>1, <1>2, FS_EmptySet, FS_CardinalityType DEF Others, Following
<1> HIDE DEF a, b
<1> QED  BY <1>1, <1>5, <1>6 DEF CubeCount

\* A cube read is one cube more.
LEMMA LoadCount ==
  ASSUME ControlInv, BucketsByLits, Load
  PROVE  CubeCount' = CubeCount + 1
<1>1. pc = "ctor" /\ pc' = "add_cube" /\ caller' = "ctor" /\ add' = TRUE
  BY DEF Load, CallAddCube
<1>2. /\ ~ Attempting /\ ~ Attempting' /\ ~ InFlight /\ InFlight'
      /\ Others = {} /\ Others' = {}
  BY <1>1 DEF Attempting, InFlight, Others, Following
<1>3. Cover' = Cover
  BY ElsewhereStep DEF Elsewhere
<1> QED  BY <1>2, <1>3, CoverIsFinite, FS_EmptySet DEF CubeCount, ControlInv, n_cubes

\* The other steps do not change the number of cubes.
LEMMA ElsewhereCount ==
  ASSUME ControlInv, BucketsByLits, Elsewhere, ~ Load
  PROVE  CubeCount' = CubeCount
<1>1. Cover' = Cover /\ (Attempting' <=> Attempting)
  BY ElsewhereStep
<1>2. CASE Attempting
  BY <1>1, <1>2 DEF CubeCount
<1>3. CASE ~ Attempting /\ AttemptGained
  <2>1. pc = "attempted" /\ pc' = "follow" /\ left' = Tries \ {tried}
    BY <1>3 DEF AttemptGained
  <2> QED  BY <1>1, <1>3, <2>1 DEF CubeCount, InFlight, Others, Following
<1>4. CASE ~ Attempting /\ AddOther
  <2> DEFINE m == Min(left)
  <2>1. pc = "follow" /\ pc' = "add_cube" /\ caller' = "follow" /\ left' = left \ {m} /\ left # {}
    BY <1>4 DEF AddOther, CallAddCube
  <2>2. m \in left /\ IsFiniteSet(left)
    BY <2>1, MinInSet, TriesFinite DEF ControlInv, LinkOK, Following, TypeOK
  <2>3. Cardinality(left \ {m}) = Cardinality(left) - 1 /\ Cardinality(left) \in Nat
    BY <2>2, FS_RemoveElement, FS_CardinalityType
  <2> HIDE DEF m
  <2>4. Others = left /\ Others' = left \ {m} /\ ~ InFlight /\ InFlight'
    BY <1>1, <1>4, <2>1 DEF Others, Following, InFlight
  <2> QED  BY <1>1, <1>4, <2>3, <2>4, CoverIsFinite DEF CubeCount, ControlInv, n_cubes
<1>5. CASE ~ Attempting /\ (Loaded \/ StartPass \/ DropPair \/ Replaced \/ EndPass)
  <2>1. /\ pc \in {"ctor", "run", "exorlink"} \/ (pc = "follow" /\ left = {})
        /\ pc' \in {"run", "exorlink", "done"}
    BY <1>5 DEF Loaded, StartPass, DropPair, PopPair, Replaced, EndPass
  <2>2. ~ InFlight /\ ~ InFlight' /\ Others = {} /\ Others' = {} /\ ~ Attempting'
    BY <1>1, <1>5, <2>1 DEF InFlight, Others, Following
  <2> QED  BY <1>1, <1>5, <2>2 DEF CubeCount
<1>6. CASE UNCHANGED vars
  <2>1. UNCHANGED <<pc, caller, left, tried, pair, group, pass, cube, add, gain>>
    BY <1>6 DEF vars, addVars, linkVars, passVars
  <2>2. Tries' = Tries
    BY <2>1, LinkedSame
  <2> QED  BY <1>1, <2>1, <2>2 DEF CubeCount, InFlight, Attempting, Others, Following
<1>7. CASE Attempt \/ TryNextCube \/ TryNextGroup
  <2>1. Attempting
    BY <1>7 DEF Attempt, TryNextCube, TryNextGroup, Attempting
  <2> QED  BY <1>2, <2>1
<1> QED  BY <1>2, <1>3, <1>4, <1>5, <1>6, <1>7 DEF Elsewhere

\* Only reading a cube makes the cover larger.
LEMMA CountSteps ==
  ASSUME CoverInv, [Next]_vars, ~ Load
  PROVE  CubeCount' <= CubeCount
<1>1. ControlInv /\ BucketsByLits /\ ControlInv' /\ CubeCount \in Nat
  BY NextControl, CountIsNat DEF CoverInv
<1> QED
  BY <1>1, MergeCount, CancelCount, KeepCount, TakeCount, GiveUpCount, ElsewhereCount
     DEF Next, AddCube, ExorLink, Terminated, Elsewhere

\* No step of a pass makes the cover larger than it was at its start.
LEMMA NextNeverLarger == CoverInv /\ NeverLarger /\ [Next]_vars => NeverLarger'
<1> SUFFICES ASSUME CoverInv, NeverLarger, [Next]_vars, (pc = "exorlink" \/ Linking)'
             PROVE  CubeCount' <= old_size'
  BY DEF NeverLarger
<1>0. ControlInv /\ BucketsByLits /\ ControlInv' /\ CubeCount \in Nat /\ old_size \in Nat
  BY NextControl, CountIsNat DEF CoverInv, ControlInv, TypeOK
<1>1. /\ ControlInv /\ BucketsByLits /\ CubeCount \in Nat
      /\ CubeCount' \in Nat /\ old_size \in Nat
  <2>1. ControlInv => CubeCount \in Nat
    BY CountIsNat
  <2>2. (ControlInv => CubeCount \in Nat)'
    BY CountIsNat, PTL
  <2> QED  BY <1>0, <2>2
<1>2. ~ Load /\ ~ Loaded /\ ~ EndPass
  BY DEF Load, Loaded, EndPass, CallAddCube, Linking
<1>3. CubeCount' <= CubeCount
  BY <1>2, CountSteps
<1>4. CASE StartPass
  <2>1. pc = "run" /\ old_size' = Cardinality(Cover)
    BY <1>4 DEF StartPass, n_cubes
  <2>2. ~ Attempting /\ ~ InFlight /\ Others = {}
    BY <2>1 DEF Attempting, InFlight, Others, Following
  <2>3. CubeCount = old_size'
    BY <1>1, <2>1, <2>2, FS_EmptySet, CoverIsFinite DEF CubeCount, ControlInv, n_cubes
  <2> QED  BY <1>3, <2>3
<1>5. CASE ~ StartPass
  <2>1. old_size' = old_size /\ (pc = "exorlink" \/ Linking)
    BY <1>2, <1>5 DEF Next, AddCube, AddCubeMerge, AddCubeCancel, AddCubeKeep, ExorLink,
      DropPair, TakePair, PopPair, Attempt, AttemptGained, TryNextCube, TryNextGroup, GiveUp,
      AddOther, Replaced, Terminated, vars, passVars, addVars, Linking, CallAddCube
  <2> QED  BY <1>1, <1>3, <2>1 DEF NeverLarger
<1> QED  BY <1>4, <1>5

\* The size a pass returns is never negative: the unsigned subtraction does not
\* wrap around.
THEOREM GainNonNegative == Spec => []NoUnderflow
<1>1. Init => CoverInv /\ NeverLarger
  BY InitCover DEF Init, NeverLarger, Linking
<1>2. CoverInv /\ NeverLarger /\ [Next]_vars => (CoverInv /\ NeverLarger)'
  BY NextCover, NextNeverLarger
<1>3. CoverInv /\ NeverLarger => NoUnderflow
  <2> SUFFICES ASSUME CoverInv, NeverLarger, pc = "exorlink"
               PROVE  n_cubes <= old_size
    BY DEF NoUnderflow
  <2>1. ~ Attempting /\ ~ InFlight /\ Others = {}
    BY DEF Attempting, InFlight, Others, Following
  <2> QED
    BY <2>1, FS_EmptySet, CoverIsFinite
       DEF CubeCount, NeverLarger, CoverInv, ControlInv, n_cubes
<1> QED  BY <1>1, <1>2, <1>3, PTL DEF Spec

-----------------------------------------------------------------------------
(***************************************************************************)
(* No pair of the cover at distance 2 is ever lost to exorlink2, the whole *)
(* invariant holds, and the minimiser implements EsopMinimiser.            *)
(***************************************************************************)

(* What a scan queues. *)

\* The window of buckets holds every cube at a distance that has a queue.
LEMMA WindowHoldsPairs ==
  ASSUME NEW c \in Cubes, NEW x \in Cubes, distance(c, x) <= m_max_dist
  PROVE  n_lits(x) \in Window(c)
<1>1. /\ n_lits(c) \in Nat /\ n_lits(x) \in Buckets /\ n_lits(x) \in Nat
      /\ distance(c, x) \in Nat /\ distance(x, c) = distance(c, x)
  BY LitsInRange, DifferenceIsWord, NVarsAssumption DEF Buckets
<1>2. n_lits(c) <= n_lits(x) + 3 /\ n_lits(x) <= n_lits(c) + 3
  BY <1>1, LitsDistance DEF m_max_dist
<1> QED  BY <1>1, <1>2 DEF Window, m_max_dist

\* A scan lists every cube it meets at a distance.
LEMMA ListsAll ==
  ASSUME TypeOK, NEW c \in Cubes, NEW d \in Dists, NEW s \in Listings(c, d),
         NEW x \in Scanned(c), distance(c, x) = d
  PROVE  \E k \in 1 .. Len(Paired(c, s)) : Paired(c, s)[k] = <<c, x>>
<1> DEFINE near == {y \in Scanned(c) : distance(c, y) = d}
           n == Cardinality(near)
<1>1. near \subseteq Cubes
  BY DEF Scanned, Window, TypeOK
<1>2. IsFiniteSet(near) /\ n \in Nat
  BY <1>1, CubesFinite
<1>3. s \in [1 .. n -> near] /\ \A i, k \in 1 .. n : i < k => s[i] # s[k]
  BY DEF Listings
<1>4. x \in near
  OBVIOUS
<1> HIDE DEF near, n
<1>5. \A i, k \in 1 .. n : s[i] = s[k] => i = k
  <2> SUFFICES ASSUME NEW i \in 1 .. n, NEW k \in 1 .. n, i # k PROVE s[i] # s[k]
    OBVIOUS
  <2>1. i < k \/ k < i
    BY <1>2
  <2> QED  BY <1>3, <2>1
<1>6. s \in Injection(1 .. n, near)
  BY <1>3, <1>5 DEF Injection, IsInjective
<1>7. Cardinality(1 .. n) = Cardinality(near)
  BY <1>2, FS_Interval DEF n
<1>8. s \in Surjection(1 .. n, near)
  BY <1>2, <1>6, <1>7, FS_Injection
<1>9. PICK k \in 1 .. n : s[k] = x
  BY <1>4, <1>8 DEF Surjection
<1>10. Paired(c, s) = [j \in 1 .. n |-> <<c, s[j]>>]
  BY <1>3 DEF Paired
<1>11. Len(Paired(c, s)) = n
  BY <1>2, <1>10
<1> QED  BY <1>9, <1>10, <1>11

-----------------------------------------------------------------------------
(* What stays queued. *)

\* Only pairs that are in the first queue count as kept.
LEMMA KeptInQueue ==
  ASSUME ControlInv
  PROVE  /\ Kept \in Nat /\ Kept <= Len(m_pairs[2]) /\ Len(m_pairs[2]) \in Nat
         /\ m_pairs \in [Dists -> Seq(Cubes \X Cubes)] /\ 2 \in Dists
         /\ pair = <<pair[1], pair[2]>> /\ dist \in {2, 3}
  BY DistsAre, DistIsTwoOrThree
     DEF ControlInv, TypeOK, QueuesOK, RollbackShrinks, Kept, dist

\* A step that adds no cube to the cover and leaves the kept pairs queued.
LEMMA NoneLost ==
  ASSUME ControlInv, ControlInv', HeldApart, PairsWait, Kept <= Kept',
         \A k \in 1 .. Kept : m_pairs'[2][k] = m_pairs[2][k],
         Cover' \subseteq Cover,
         Held' = {} \/ (Held' = Held /\ dist' = dist)
  PROVE  PairsWait'
<1> SUFFICES ASSUME NEW a \in Cover' \cup Held', NEW b \in Cover' \cup Held',
                    distance(a, b) = 2
             PROVE  \/ \E k \in 1 .. Kept' : \/ m_pairs'[2][k] = <<a, b>>
                                             \/ m_pairs'[2][k] = <<b, a>>
                    \/ dist' = 2 /\ {a, b} = Held'
  BY DEF PairsWait, QueuedWithin
<1>1. Kept \in Nat /\ Kept' \in Nat
  <2>1. \/ Kept' = Len(m_pairs'[2])
        \/ Kept' = bookmark'[2]
    BY DEF Kept
  <2>2. m_pairs'[2] \in Seq(Cubes \X Cubes) /\ bookmark'[2] \in Nat
    BY DistsAre DEF ControlInv, TypeOK
  <2> QED  BY <2>1, <2>2, KeptInQueue
<1>2. QueuedWithin(Kept, a, b) \/ (dist = 2 /\ {a, b} = Held)
  BY DEF PairsWait
<1>3. CASE QueuedWithin(Kept, a, b)
  <2>1. PICK k \in 1 .. Kept : m_pairs[2][k] = <<a, b>> \/ m_pairs[2][k] = <<b, a>>
    BY <1>3 DEF QueuedWithin
  <2>2. k \in 1 .. Kept' /\ m_pairs'[2][k] = m_pairs[2][k]
    BY <1>1, <2>1
  <2> QED  BY <2>1, <2>2
<1>4. CASE dist = 2 /\ {a, b} = Held
  BY <1>4 DEF HeldApart
<1> QED  BY <1>2, <1>3, <1>4

-----------------------------------------------------------------------------
(* Steps of each kind. *)

\* Merging and cancelling take a cube out of the cover.
LEMMA RemovalKeepsPairs ==
  ASSUME CoverInv, ControlInv', PairsWait, AddCubeMerge \/ AddCubeCancel
  PROVE  PairsWait'
<1>1. ControlInv /\ BucketsByLits /\ HeldApart
  BY DEF CoverInv
<1>2. m_pairs' = m_pairs
  BY DEF AddCubeMerge, AddCubeCancel
<1>3. ~ Attempting' /\ Cover' \subseteq Cover
  BY <1>1, MergeStep, CancelStep
<1>4. Held' = {} /\ Kept' = Len(m_pairs[2])
  BY <1>2, <1>3 DEF Held, Kept
<1> QED  BY <1>1, <1>2, <1>3, <1>4, KeptInQueue, NoneLost

\* A cube added for good is paired with every cube of the cover at distance 2;
\* one that is only tried has its pairs beyond the bookmark.
LEMMA KeepKeepsPairs ==
  ASSUME CoverInv, ControlInv', PairsWait, AddCubeKeep
  PROVE  PairsWait'
<1>1. ControlInv /\ BucketsByLits /\ HeldApart /\ TypeOK /\ cube \in Cubes
  BY DEF CoverInv, ControlInv, TypeOK
<1>2. /\ Attempting' <=> Attempting
      /\ add <=> ~ Attempting
      /\ Cover' = IF add THEN Cover \cup {cube} ELSE Cover
  BY <1>1, KeepStep
<1>3. bookmark' = bookmark /\ pair' = pair /\ dist' = dist
  BY DEF AddCubeKeep, linkVars, passVars, dist
<1>4. PICK s2 \in Listings(cube, 2), s3 \in Listings(cube, 3) :
        m_pairs' = [d \in Dists |-> m_pairs[d] \o Paired(cube, IF d = 2 THEN s2 ELSE s3)]
  BY DEF AddCubeKeep
<1> DEFINE q == m_pairs[2]
           r == Paired(cube, s2)
<1>5. m_pairs'[2] = q \o r
  BY <1>4, DistsAre
<1>6. q \in Seq(Cubes \X Cubes) /\ r \in Seq(Cubes \X Cubes)
  BY <1>1, DistsAre, ListedPairs, KeptInQueue
<1> HIDE DEF q, r
<1>7. /\ Len(q) \in Nat /\ Len(r) \in Nat /\ Len(q \o r) = Len(q) + Len(r)
      /\ \A k \in 1 .. Len(q) : (q \o r)[k] = q[k]
      /\ \A k \in 1 .. Len(r) : (q \o r)[Len(q) + k] = r[k]
  BY <1>6
<1>8. /\ Kept \in Nat /\ Kept <= Len(q) /\ Kept <= Kept'
      /\ \A k \in 1 .. Kept : m_pairs'[2][k] = m_pairs[2][k]
  <2>1. Kept \in Nat /\ Kept <= Len(q)
    BY <1>1, KeptInQueue DEF q
  <2>2. Kept' = IF Attempting THEN Kept ELSE Len(q \o r)
    BY <1>2, <1>3, <1>5 DEF Kept
  <2> QED  BY <1>5, <1>7, <2>1, <2>2 DEF q
<1>9. CASE ~ add
  <2>1. Cover' = Cover /\ Held' = Held
    BY <1>2, <1>3, <1>9 DEF Held
  <2> QED  BY <1>1, <1>3, <1>8, <2>1, NoneLost
<1>10. CASE add
  <2>1. Held = {} /\ Held' = {} /\ Cover' = Cover \cup {cube} /\ Kept' = Len(q \o r)
    BY <1>2, <1>5, <1>10 DEF Held, Kept
  <2>2. Cover \subseteq Cubes /\ distance(cube, cube) = 0
    BY <1>1, CoverIsFinite, DifferenceIsWord
  <2>3. ASSUME NEW x \in Cover, distance(cube, x) = 2
        PROVE  \E k \in 1 .. Len(q \o r) : m_pairs'[2][k] = <<cube, x>>
    <3>1. x \in Cubes /\ x \in m_cubes[n_lits(x)]
      BY <1>1, <2>2, InCover DEF Present
    <3>2. x \in Scanned(cube)
      BY <1>1, <2>3, <3>1, WindowHoldsPairs DEF Scanned, m_max_dist
    <3>3. PICK k \in 1 .. Len(r) : r[k] = <<cube, x>>
      BY <1>1, <2>3, <3>2, DistsAre, ListsAll DEF r
    <3>4. Len(q) + k \in 1 .. Len(q \o r) /\ (q \o r)[Len(q) + k] = r[k]
      BY <1>7
    <3> QED  BY <1>5, <3>3, <3>4
  <2>4. ASSUME NEW a \in Cover, NEW b \in Cover, distance(a, b) = 2
        PROVE  \E k \in 1 .. Len(q \o r) :
                 m_pairs'[2][k] = <<a, b>> \/ m_pairs'[2][k] = <<b, a>>
    <3>1. PICK k \in 1 .. Kept : m_pairs[2][k] = <<a, b>> \/ m_pairs[2][k] = <<b, a>>
      BY <2>1, <2>4 DEF PairsWait, QueuedWithin
    <3>2. k \in 1 .. Len(q \o r) /\ m_pairs'[2][k] = m_pairs[2][k]
      BY <1>7, <1>8, <3>1
    <3> QED  BY <3>1, <3>2
  <2>5. ASSUME NEW a \in Cover', NEW b \in Cover', distance(a, b) = 2
        PROVE  \E k \in 1 .. Kept' :
                 m_pairs'[2][k] = <<a, b>> \/ m_pairs'[2][k] = <<b, a>>
    <3>1. a \in Cubes /\ b \in Cubes /\ distance(b, a) = 2
      BY <1>1, <2>1, <2>2, <2>5, DifferenceIsWord
    <3>2. CASE a \in Cover /\ b \in Cover
      BY <2>1, <2>4, <2>5, <3>2
    <3>3. CASE a = cube /\ b \in Cover
      BY <2>1, <2>3, <2>5, <3>3
    <3>4. CASE b = cube /\ a \in Cover
      BY <2>1, <2>3, <3>1, <3>4
    <3>5. ~ (a = cube /\ b = cube)
      BY <2>2, <2>5
    <3> QED  BY <2>1, <3>2, <3>3, <3>4, <3>5
  <2> QED  BY <2>1, <2>5 DEF PairsWait, QueuedWithin
<1> QED  BY <1>9, <1>10

\* The entries behind the head of a queue.
LEMMA TailEntries ==
  ASSUME NEW q \in Seq(Cubes \X Cubes), Len(q) > 0
  PROVE  /\ Len(Tail(q)) = Len(q) - 1 /\ Len(q) \in Nat
         /\ Head(q) = q[1] /\ q[1] \in Cubes \X Cubes
         /\ \A k \in 2 .. Len(q) : Tail(q)[k - 1] = q[k]
  OBVIOUS

\* A pass takes a pair from the front of its queue.
LEMMA PopStep ==
  ASSUME ControlInv, PopPair
  PROVE  /\ Len(m_pairs[dist]) > 0 /\ ~ Attempting /\ Kept = Len(m_pairs[2])
         /\ dist = 3 => m_pairs'[2] = m_pairs[2]
         /\ dist = 2 => m_pairs'[2] = Tail(m_pairs[2])
<1>1. pc = "exorlink" /\ todo > 0 /\ m_pairs' = [m_pairs EXCEPT ![dist] = Tail(@)]
  BY DEF PopPair
<1>2. ~ Attempting
  BY <1>1 DEF Attempting
<1>3. Len(m_pairs[dist]) > 0
  <2>1. todo <= Len(m_pairs[dist]) /\ todo \in Nat
    BY <1>1 DEF ControlInv, QueuesOK, QueueCoversPass, TypeOK
  <2>2. Len(m_pairs[dist]) \in Nat
    BY KeptInQueue, DistsAre
  <2> QED  BY <1>1, <2>1, <2>2
<1> QED  BY <1>1, <1>2, <1>3, KeptInQueue DEF Kept

\* Popping the first queue loses no pair but the one at its head.
LEMMA OnlyHeadLost ==
  ASSUME ControlInv, ControlInv', PairsWait, PopPair, Kept' = Len(m_pairs'[2]),
         NEW a \in Cover, NEW b \in Cover, distance(a, b) = 2
  PROVE  \/ \E k \in 1 .. Kept' : m_pairs'[2][k] = <<a, b>> \/ m_pairs'[2][k] = <<b, a>>
         \/ dist = 2 /\ (Head(m_pairs[2]) = <<a, b>> \/ Head(m_pairs[2]) = <<b, a>>)
<1> DEFINE q == m_pairs[2]
<1>1. q \in Seq(Cubes \X Cubes) /\ ~ Attempting /\ Kept = Len(q) /\ dist \in {2, 3}
  BY PopStep, KeptInQueue
<1>2. PICK k \in 1 .. Len(q) : q[k] = <<a, b>> \/ q[k] = <<b, a>>
  BY <1>1 DEF PairsWait, QueuedWithin, Held
<1>3. CASE dist = 3
  BY <1>2, <1>3, PopStep
<1>4. CASE dist = 2
  <2>1. m_pairs'[2] = Tail(q) /\ Len(q) > 0
    BY <1>4, PopStep
  <2> HIDE DEF q
  <2>2. CASE k = 1
    BY <1>1, <1>2, <1>4, <2>1, <2>2, TailEntries DEF q
  <2>3. CASE k # 1
    <3>1. Len(q) \in Nat /\ k \in 2 .. Len(q)
      BY <1>1, <1>2, <2>3
    <3>2. k - 1 \in 1 .. Kept' /\ m_pairs'[2][k - 1] = q[k]
      BY <1>1, <2>1, <3>1, TailEntries
    <3> QED  BY <1>2, <3>2
  <2> QED  BY <2>2, <2>3
<1> QED  BY <1>1, <1>3, <1>4

\* exorlink2 only drops a pair of which a cube has left the cover.
LEMMA DropKeepsPairs ==
  ASSUME CoverInv, ControlInv', PairsWait, DropPair
  PROVE  PairsWait'
<1>1. ControlInv /\ BucketsByLits /\ TypeOK /\ PopPair
  BY DEF CoverInv, ControlInv, DropPair
<1>2. Cover' = Cover /\ (Attempting' <=> Attempting)
  BY <1>1, ElsewhereStep DEF Elsewhere
<1>3. Held' = {} /\ Kept' = Len(m_pairs'[2])
  BY <1>1, <1>2, PopStep DEF Held, Kept
<1>4. ASSUME NEW a \in Cover, NEW b \in Cover, dist = 2,
             Head(m_pairs[2]) = <<a, b>> \/ Head(m_pairs[2]) = <<b, a>>
      PROVE  FALSE
  <2>1. Present(a) /\ Present(b)
    BY <1>1, CoverIsFinite, InCover
  <2>2. PICK k \in 1 .. 2 : ~ Present(Head(m_pairs[2])[k])
    BY <1>4 DEF DropPair
  <2>3. Head(m_pairs[2])[k] = a \/ Head(m_pairs[2])[k] = b
    BY <1>4, <2>2
  <2> QED  BY <2>1, <2>2, <2>3
<1> QED  BY <1>1, <1>2, <1>3, <1>4, OnlyHeadLost DEF PairsWait, QueuedWithin

\* The pair taken is held, and everything else queued lies below the bookmark.
LEMMA TakeKeepsPairs ==
  ASSUME CoverInv, ControlInv', PairsWait, TakePair
  PROVE  PairsWait'
<1>1. ControlInv /\ BucketsByLits /\ PopPair
  BY DEF CoverInv, TakePair
<1>2. /\ Attempting' /\ pair'[1] \in Cover /\ pair'[2] \in Cover
      /\ Cover' = Cover \ {pair'[1], pair'[2]}
  BY <1>1, TakeStep
<1>3. pair' = Head(m_pairs[dist]) /\ dist' = dist /\ bookmark' = Lengths'
  BY DEF TakePair, dist
<1>4. Kept' = Len(m_pairs'[2])
  BY <1>2, <1>3, DistsAre DEF Kept, Lengths
<1>5. Held' = {pair'[1], pair'[2]} /\ Cover' \cup Held' = Cover
  BY <1>2 DEF Held
<1>6. ASSUME NEW a \in Cover, NEW b \in Cover, dist = 2,
             Head(m_pairs[2]) = <<a, b>> \/ Head(m_pairs[2]) = <<b, a>>
      PROVE  {a, b} = Held'
  BY <1>3, <1>5, <1>6
<1>7. ASSUME NEW a \in Cover, NEW b \in Cover, distance(a, b) = 2
      PROVE  \/ \E k \in 1 .. Kept' : m_pairs'[2][k] = <<a, b>> \/ m_pairs'[2][k] = <<b, a>>
             \/ dist' = 2 /\ {a, b} = Held'
  BY <1>1, <1>3, <1>4, <1>6, <1>7, OnlyHeadLost
<1>8. ASSUME NEW a \in Cover' \cup Held', NEW b \in Cover' \cup Held', distance(a, b) = 2
      PROVE  \/ \E k \in 1 .. Kept' : m_pairs'[2][k] = <<a, b>> \/ m_pairs'[2][k] = <<b, a>>
             \/ dist' = 2 /\ {a, b} = Held'
  BY <1>5, <1>7, <1>8
<1> QED  BY <1>8 DEF PairsWait, QueuedWithin

\* A pair given up returns to the cover with its pairs, which no rollback cut,
\* and exorlink2 queues it again.
LEMMA GiveUpKeepsPairs ==
  ASSUME CoverInv, ControlInv', PairsWait, GiveUp
  PROVE  PairsWait'
<1>1. ControlInv /\ BucketsByLits /\ TypeOK /\ RollbackShrinks
  BY DEF CoverInv, ControlInv, QueuesOK
<1>2. /\ Attempting /\ ~ Attempting'
      /\ Cover' = Cover \cup {pair[1], pair[2]}
  BY <1>1, GiveUpStep
<1>3. /\ Held = {pair[1], pair[2]} /\ Held' = {} /\ Cover' = Cover \cup Held
      /\ Kept = bookmark[2] /\ Kept' = Len(m_pairs'[2])
  BY <1>2 DEF Held, Kept
<1> DEFINE r == Rollback[2]
<1>4. /\ r \in Seq(Cubes \X Cubes) /\ Len(r) = Kept /\ Kept \in Nat
      /\ \A k \in 1 .. Kept : r[k] = m_pairs[2][k]
  BY <1>1, <1>2, <1>3, DistsAre, RollbackCuts, KeptInQueue
<1>5. m_pairs'[2] = IF dist = 2 THEN Append(r, pair) ELSE r
  BY DistsAre DEF GiveUp, Rollback
<1>6. pair \in Cubes \X Cubes /\ pair = <<pair[1], pair[2]>>
  BY <1>1, KeptInQueue DEF TypeOK
<1> HIDE DEF r
<1>7. /\ Len(Append(r, pair)) = Kept + 1 /\ Append(r, pair)[Kept + 1] = pair
      /\ \A k \in 1 .. Kept : Append(r, pair)[k] = r[k]
  BY <1>4, <1>6
<1>8. ASSUME NEW a \in Cover \cup Held, NEW b \in Cover \cup Held, distance(a, b) = 2
      PROVE  \E k \in 1 .. Kept' : m_pairs'[2][k] = <<a, b>> \/ m_pairs'[2][k] = <<b, a>>
  <2>1. CASE QueuedWithin(Kept, a, b)
    <3>1. PICK k \in 1 .. Kept : m_pairs[2][k] = <<a, b>> \/ m_pairs[2][k] = <<b, a>>
      BY <2>1 DEF QueuedWithin
    <3>2. k \in 1 .. Kept' /\ m_pairs'[2][k] = m_pairs[2][k]
      BY <1>3, <1>4, <1>5, <1>7, <3>1
    <3> QED  BY <3>1, <3>2
  <2>2. CASE dist = 2 /\ {a, b} = Held
    <3>1. pair = <<a, b>> \/ pair = <<b, a>>
      BY <1>3, <1>6, <2>2
    <3>2. Kept + 1 \in 1 .. Kept' /\ m_pairs'[2][Kept + 1] = pair
      BY <1>3, <1>4, <1>5, <1>7, <2>2
    <3> QED  BY <3>1, <3>2
  <2> QED  BY <1>8, <2>1, <2>2 DEF PairsWait
<1> QED  BY <1>3, <1>8 DEF PairsWait, QueuedWithin

\* Every other step leaves the kept part of the first queue alone.
LEMMA ElsewhereKeepsPairs ==
  ASSUME CoverInv, ControlInv', PairsWait, Elsewhere, ~ DropPair
  PROVE  PairsWait'
<1>1. ControlInv /\ BucketsByLits /\ HeldApart /\ TypeOK /\ RollbackShrinks
  BY DEF CoverInv, ControlInv, QueuesOK
<1>2. Cover' = Cover /\ pair' = pair /\ (Attempting' <=> Attempting)
  BY <1>1, ElsewhereStep
<1>3. CASE ~ Attempting
  <2>1. m_pairs' = m_pairs
    BY <1>3 DEF Elsewhere, Load, Loaded, StartPass, Attempt, AttemptGained, TryNextCube,
      TryNextGroup, AddOther, Replaced, EndPass, vars, Attempting
  <2>2. Held' = {} /\ Kept' = Kept
    BY <1>2, <1>3, <2>1 DEF Held, Kept
  <2> QED  BY <1>1, <1>2, <2>1, <2>2, KeptInQueue, NoneLost
<1>4. CASE Attempting
  <2>1. Attempt \/ TryNextCube \/ TryNextGroup \/ UNCHANGED vars
    <3>1. pc \in {"attempt", "attempted", "add_cube"} /\ (pc = "attempted" => gain = 0)
      BY <1>4 DEF Attempting
    <3>2. ~ Load /\ ~ Loaded /\ ~ StartPass /\ ~ AddOther /\ ~ Replaced /\ ~ EndPass
      BY <3>1 DEF Load, Loaded, StartPass, AddOther, Replaced, EndPass
    <3>3. ~ AttemptGained
      BY <3>1 DEF AttemptGained
    <3> QED  BY <3>2, <3>3 DEF Elsewhere
  <2>2. bookmark' = bookmark /\ dist' = dist /\ m_pairs' \in {m_pairs, Rollback}
    BY <2>1 DEF Attempt, TryNextCube, TryNextGroup, vars, passVars, dist
  <2>3. Held' = Held /\ Kept' = Kept /\ Kept = bookmark[2] /\ Kept \in Nat
    BY <1>1, <1>2, <1>4, <2>2, KeptInQueue DEF Held, Kept
  <2>4. \A k \in 1 .. Kept : m_pairs'[2][k] = m_pairs[2][k]
    BY <1>1, <1>4, <2>2, <2>3, DistsAre, RollbackCuts
  <2> QED  BY <1>1, <1>2, <2>2, <2>3, <2>4, NoneLost
<1> QED  BY <1>3, <1>4

-----------------------------------------------------------------------------
(* No pair is lost. *)

\* Every step keeps the pairs of the cover waiting.
LEMMA NextWait == CoverInv /\ PairsWait /\ [Next]_vars => PairsWait'
<1> SUFFICES ASSUME CoverInv, PairsWait, [Next]_vars PROVE PairsWait'
  OBVIOUS
<1>1. ControlInv'
  BY NextControl DEF CoverInv
<1>2. CASE AddCubeMerge \/ AddCubeCancel
  BY <1>1, <1>2, RemovalKeepsPairs
<1>3. CASE AddCubeKeep
  BY <1>1, <1>3, KeepKeepsPairs
<1>4. CASE DropPair
  BY <1>1, <1>4, DropKeepsPairs
<1>5. CASE TakePair
  BY <1>1, <1>5, TakeKeepsPairs
<1>6. CASE GiveUp
  BY <1>1, <1>6, GiveUpKeepsPairs
<1>7. CASE Elsewhere /\ ~ DropPair
  BY <1>1, <1>7, ElsewhereKeepsPairs
<1> QED
  BY <1>2, <1>3, <1>4, <1>5, <1>6, <1>7
     DEF Next, AddCube, ExorLink, Terminated, Elsewhere

\* The empty cover has no pairs.
LEMMA InitWait == Init => PairsWait
  BY DEF Init, PairsWait, Cover, Held, Attempting

\* Between two iterations every pair of the cover at distance 2 waits in the
\* first queue: no interleaving of scans, rollbacks and dropped pairs loses one.
THEOREM PairsNeverLost == Spec => []Distance2Queued
<1>1. CoverInv /\ PairsWait => Distance2Queued
  <2> SUFFICES ASSUME PairsWait, Settled PROVE Distance2Queued
    BY DEF Distance2Queued
  <2>1. Held = {} /\ Kept = Len(m_pairs[2])
    BY DEF Settled, Attempting, Held, Kept
  <2> QED  BY <2>1 DEF PairsWait, Distance2Queued, Queued
<1> QED  BY <1>1, InitCover, InitWait, NextCover, NextWait, PTL DEF Spec

\* Everything the proofs rely on, at once: in particular every cube handled has
\* its bits among the inputs, and the queue a pass reads covers the pass.
THEOREM Invariant == Spec => []IInv
<1>1. Init => IInv
  BY InitCover, InitWait, InitFunction DEF Init, IInv, NeverLarger, AllLoaded, Linking
<1>2. IInv /\ [Next]_vars => IInv'
  BY NextCover, NextWait, NextFunction, NextNeverLarger, NextLoaded DEF IInv, CoverInv
<1> QED  BY <1>1, <1>2, PTL DEF Spec

-----------------------------------------------------------------------------
(* The refinement. *)

\* EsopMinimiser's phase, as ExorcismInv maps it.
Phase == IF pc = "done" THEN "stopped"
         ELSE IF pc = "ctor" \/ (pc = "add_cube" /\ caller = "ctor")
                THEN "taking" ELSE "minimising"

\* Both modules speak of the same cubes.
LEMMA SameCubes ==
  /\ Abstract!Cubes = Cubes
  /\ \A c \in Cubes : \A g : Abstract!SymDiff(g, Abstract!OnSet(c)) = SymDiff(g, OnSet(c))
  BY DEF Abstract!Cubes, Cubes, Abstract!Vars, Vars, Abstract!SymDiff, SymDiff,
    Abstract!OnSet, OnSet, Abstract!Covers, Covers, Abstract!Points, Points

\* Minimising starts from no cubes at all.
LEMMA InitRefines == Init => Abstract!Init
<1> SUFFICES ASSUME Init PROVE Abstract!Init
  OBVIOUS
<1>1. Cover = {} /\ ~ Attempting /\ ~ InFlight /\ Others = {}
  BY DEF Init, Cover, Attempting, InFlight, Others, Following
<1>2. SymDiff(EsopOf(Cover), Owed) = {}
  BY <1>1, NothingOwed, EsopOfEmpty DEF SymDiff
<1>3. CubeCount = 0
  BY <1>1, FS_EmptySet DEF CubeCount
<1>4. original \in Seq(Cubes)
  BY OriginalCubes DEF Init
<1> QED  BY <1>2, <1>3, <1>4, SameCubes DEF Abstract!Init, Init

\* What the actions that are not part of reading or of stopping leave alone.
LEMMA SamePhase ==
  ASSUME IInv, [Next]_vars, ~ Load, ~ Loaded, ~ EndPass
  PROVE  Phase' = Phase /\ original' = original /\ loaded' = loaded
<1>1. CASE AddCubeMerge \/ AddCubeCancel \/ AddCubeKeep
  BY <1>1 DEF AddCubeMerge, AddCubeCancel, AddCubeKeep, Phase, inputVars, addVars,
    IInv, CoverInv, ControlInv, TypeOK
<1>2. CASE StartPass \/ DropPair \/ TakePair \/ GiveUp \/ Replaced
  BY <1>2 DEF StartPass, DropPair, TakePair, PopPair, GiveUp, Replaced, Phase, inputVars,
    addVars
<1>3. CASE Attempt \/ AttemptGained \/ TryNextCube \/ TryNextGroup \/ AddOther
  BY <1>3 DEF Attempt, AttemptGained, TryNextCube, TryNextGroup, AddOther, CallAddCube,
    Phase, inputVars, addVars
<1>4. CASE UNCHANGED vars
  BY <1>4 DEF vars, Phase, inputVars, addVars
<1> QED  BY <1>1, <1>2, <1>3, <1>4 DEF Next, AddCube, ExorLink, Terminated

\* A step of the minimiser is a step of EsopMinimiser or leaves its state alone.
LEMMA NextRefines == IInv /\ [Next]_vars => [Abstract!Next]_(Abstract!avars)
<1> SUFFICES ASSUME IInv, [Next]_vars PROVE [Abstract!Next]_(Abstract!avars)
  OBVIOUS
<1> DEFINE Sum == SymDiff(EsopOf(Cover), Owed)
<1>1. CoverInv /\ ControlInv /\ BucketsByLits /\ ControlInv'
  BY NextControl DEF IInv, CoverInv
<1>2. Sum = Total /\ Sum' = Total'
  BY DEF Total
<1>3. CASE Load
  <2>1. Sum' = SymDiff(Sum, OnSet(original[loaded + 1])) /\ CubeCount' = CubeCount + 1
    BY <1>1, <1>2, <1>3, LoadAddsCube, LoadCount
  <2>2. /\ original' = original /\ loaded' = loaded + 1 /\ loaded < Len(original)
        /\ Phase = "taking" /\ Phase' = Phase /\ original[loaded + 1] \in Cubes
    BY <1>1, <1>3, OriginalCubes DEF Load, CallAddCube, inputVars, Phase, ControlInv, TypeOK
  <2>3. SymDiff(Sum, OnSet(original[loaded + 1]))
          = Abstract!SymDiff(Sum, Abstract!OnSet(original[loaded + 1]))
    BY <2>2, SameCubes
  <2>4. Abstract!Take
    BY <2>1, <2>2, <2>3 DEF Abstract!Take, Phase
  <2> QED  BY <2>4 DEF Abstract!Next
<1>4. CASE ~ Load
  <2>1. Sum' = Sum
    BY <1>1, <1>2, <1>4, MergeKeepsTotal, CancelKeepsTotal, KeepKeepsTotal, TakeKeepsTotal,
       GiveUpKeepsTotal, ElsewhereKeepsTotal
       DEF Next, AddCube, ExorLink, Terminated, Elsewhere
  <2>2. CubeCount' <= CubeCount /\ CubeCount \in Nat /\ CubeCount' \in Nat
    <3>1. (ControlInv => CubeCount \in Nat)'
      BY CountIsNat, PTL
    <3> QED  BY <1>1, <1>4, <3>1, CountSteps, CountIsNat
  <2>3. CASE Loaded \/ EndPass
    <3>1. CubeCount' = CubeCount
      BY <1>1, <1>4, <2>3, ElsewhereCount DEF Elsewhere
    <3>2. original' = original /\ loaded' = loaded
      BY <2>3 DEF Loaded, EndPass, inputVars
    <3>3. CASE Loaded
      <4>1. Phase = "taking" /\ Phase' = "minimising" /\ loaded = Len(original)
        BY <3>3 DEF Loaded, Phase
      <4> QED  BY <2>1, <3>1, <3>2, <4>1 DEF Abstract!Next, Abstract!Start, Phase
    <3>4. CASE EndPass
      <4>1. Phase = "minimising" /\ Phase' \in {"minimising", "stopped"}
        BY <3>4 DEF EndPass, Phase
      <4>2. CASE Phase' = "stopped"
        BY <2>1, <3>1, <3>2, <4>1, <4>2 DEF Abstract!Next, Abstract!Stop, Phase
      <4>3. CASE Phase' = Phase
        BY <2>1, <3>1, <3>2, <4>3 DEF Abstract!avars, Phase
      <4> QED  BY <4>1, <4>2, <4>3
    <3> QED  BY <2>3, <3>3, <3>4
  <2>4. CASE ~ Loaded /\ ~ EndPass
    <3>1. Phase' = Phase /\ original' = original /\ loaded' = loaded
      BY <1>4, <2>4, SamePhase
    <3>2. CASE CubeCount' = CubeCount
      BY <2>1, <3>1, <3>2 DEF Abstract!avars, Phase
    <3>3. CASE CubeCount' < CubeCount
      <4>1. pc # "done"
        <5>1. CASE UNCHANGED vars
          <6>1. CubeCount' = CubeCount
            BY <1>1, <1>4, <5>1, ElsewhereCount DEF Elsewhere
          <6> QED  BY <3>3, <6>1, <2>2
        <5>2. CASE ~ UNCHANGED vars
          BY <1>4, <2>4, <5>2 DEF Next, AddCube, AddCubeMerge, AddCubeCancel, AddCubeKeep,
            ExorLink, StartPass, DropPair, TakePair, PopPair, Attempt, AttemptGained,
            TryNextCube, TryNextGroup, GiveUp, AddOther, Replaced, Terminated
        <5> QED  BY <5>1, <5>2
      <4>2. Phase # "stopped" /\ CubeCount' \in 0 .. CubeCount - 1
        BY <2>2, <3>3, <4>1 DEF Phase
      <4> QED  BY <2>1, <3>1, <4>2 DEF Abstract!Next, Abstract!Shrink, Phase
    <3> QED  BY <2>2, <3>2, <3>3
  <2> QED  BY <2>3, <2>4
<1> QED  BY <1>3, <1>4

\* A cube read is added to the function of the cover; no other step of add_cube,
\* exorlink2, exorlink3 or run() changes the function or makes the cover larger.
THEOREM Refinement == Spec => Implements
<1>1. IInv /\ [Next]_vars => [Abstract!Next]_(Abstract!avars)
  BY NextRefines
<1> QED
  BY <1>1, InitRefines, Invariant, PTL DEF Spec, Implements, Abstract!Spec
=============================================================================
