-------------------------- MODULE AigCollapseProofs --------------------------
(***************************************************************************)
(* The collapser of module AigCollapse computes the functions of a graph,  *)
(* for every graph of fewer than Width inputs.                             *)
(***************************************************************************)
EXTENDS AigCollapseInv, Cube32Lemmas, SequenceTheorems

-----------------------------------------------------------------------------
(* The operations on cubes. *)

\* cube32_one is 1 everywhere.
LEMMA OneIsCube == cube32_one \in Cubes /\ OnSet(cube32_one) = Points
  BY DEF cube32_one, Cubes, Cube, OnSet, Covers

\* A single literal is complemented by inverting it.
LEMMA InvertLiteral ==
  ASSUME NEW c \in Cubes, n_lits(c) = 1
  PROVE  invert(c) \in Cubes /\ OnSet(invert(c)) = Points \ OnSet(c)
<1>1. PICK v : c.mask = {v}
  BY LitsInRange, FS_Singleton DEF n_lits
<1>2. v \in Vars /\ c.polarity \in SUBSET {v}
  BY <1>1, CubeFields
<1>3. invert(c) = Cube({v}, {v} \ c.polarity)
  BY <1>1, <1>2 DEF invert, SymDiff, Cube
<1>4. invert(c) \in Cubes
  BY <1>2, <1>3, CubeIntro
<1>5. \A x \in Points : Covers(invert(c), x) <=> ~ Covers(c, x)
  BY <1>1, <1>2, <1>3 DEF Covers, Cube
<1> QED  BY <1>4, <1>5 DEF OnSet

\* prepare_input complements a function.
LEMMA ComplementOf ==
  ASSUME NEW s \in Seq(Cubes)
  PROVE  /\ Complement(s) \in Seq(Cubes)
         /\ FunctionOf(Complement(s)) = Points \ FunctionOf(s)
<1>1. FunctionOf(s) \in SUBSET Points
  BY FunctionIsSet DEF FunctionOf
<1>2. CASE s = <<>>
  <2>1. Complement(s) = <<cube32_one>> \o <<>>
    BY <1>2 DEF Complement
  <2>2. <<>> \in Seq(Cubes) /\ cube32_one \in Cubes
    BY OneIsCube
  <2>3. /\ <<cube32_one>> \o <<>> \in Seq(Cubes)
        /\ FunctionOf(<<cube32_one>> \o <<>>) = SymDiff(FunctionOf(<<>>), OnSet(cube32_one))
    BY <2>2, FunctionOfCons
  <2>4. SymDiff(FunctionOf(<<>>), OnSet(cube32_one)) = Points
    BY OneIsCube, FunctionOfNone DEF SymDiff
  <2>5. Points \ FunctionOf(s) = Points
    BY <1>2, FunctionOfNone
  <2> QED  BY <2>1, <2>3, <2>4, <2>5
<1>3. CASE s # <<>>
  <2>1. /\ s = <<s[1]>> \o Tail(s) /\ Tail(s) \in Seq(Cubes) /\ s[1] \in Cubes
    BY <1>3
  <2>2. FunctionOf(s) = SymDiff(FunctionOf(Tail(s)), OnSet(s[1]))
    BY <2>1, FunctionOfCons
  <2>3. FunctionOf(Tail(s)) \in SUBSET Points /\ OnSet(s[1]) \in SUBSET Points
    BY FunctionIsSet DEF FunctionOf, OnSet
  <2>4. CASE s[1] = cube32_one
    <3>1. Complement(s) = Tail(s)
      BY <1>3, <2>4 DEF Complement
    <3> QED  BY <2>1, <2>2, <2>3, <2>4, <3>1, OneIsCube DEF SymDiff
  <2>5. CASE s[1] # cube32_one /\ n_lits(s[1]) = 1
    <3>1. Complement(s) = <<invert(s[1])>> \o Tail(s)
      BY <1>3, <2>5 DEF Complement
    <3>2. invert(s[1]) \in Cubes /\ OnSet(invert(s[1])) = Points \ OnSet(s[1])
      BY <2>1, <2>5, InvertLiteral
    <3>3. /\ Complement(s) \in Seq(Cubes)
          /\ FunctionOf(Complement(s))
               = SymDiff(FunctionOf(Tail(s)), Points \ OnSet(s[1]))
      BY <2>1, <3>1, <3>2, FunctionOfCons
    <3> QED  BY <2>2, <2>3, <3>3 DEF SymDiff
  <2>6. CASE s[1] # cube32_one /\ n_lits(s[1]) # 1
    <3>1. Complement(s) = <<cube32_one>> \o s
      BY <1>3, <2>6 DEF Complement
    <3>2. /\ Complement(s) \in Seq(Cubes)
          /\ FunctionOf(Complement(s)) = SymDiff(FunctionOf(s), Points)
      BY <3>1, OneIsCube, FunctionOfCons
    <3> QED  BY <1>1, <3>2 DEF SymDiff
  <2> QED  BY <2>4, <2>5, <2>6
<1> QED  BY <1>2, <1>3

\* The product of two cubes, unless it is 0: with an input to spare no product
\* can be mistaken for the sentinel cube32_zero.
LEMMA ProductOf ==
  ASSUME NVars < Width, NEW c \in Cubes, NEW d \in Cubes
  PROVE  /\ \A p \in Product(c, d) : p \in Cubes /\ OnSet(p) = OnSet(c) \cap OnSet(d)
         /\ Product(c, d) = {} => OnSet(c) \cap OnSet(d) = {}
<1>1. OnSet(c) \in SUBSET Points /\ OnSet(d) \in SUBSET Points
  BY DEF OnSet
<1>2. CASE c = cube32_one \/ d = cube32_one
  BY <1>1, <1>2, OneIsCube DEF Product
<1>3. CASE c # cube32_one /\ d # cube32_one
  <2> DEFINE clash == SymDiff(c.polarity, d.polarity) \cap c.mask \cap d.mask
             p     == Cube(c.mask \cup d.mask, c.polarity \cup d.polarity)
  <2>1. Product(c, d) = {And(c, d)} \ {cube32_zero}
    BY <1>3 DEF Product
  <2>2. CASE clash # {}
    <3>1. And(c, d) = cube32_zero
      BY <2>2 DEF And
    <3>2. PICK v \in clash : TRUE
      BY <2>2
    <3>3. \A x \in Points : ~ (Covers(c, x) /\ Covers(d, x))
      BY <3>2, CubeFields DEF Covers, SymDiff
    <3> QED  BY <2>1, <3>1, <3>3 DEF OnSet
  <2>3. CASE clash = {}
    <3>1. And(c, d) = p /\ p \in Cubes
      BY <2>3, CubeFields, CubeIntro DEF And
    <3>2. p # cube32_zero
      <4>1. p.mask \in SUBSET Vars /\ NVars \in Bits /\ NVars \notin Vars
        BY CubeFields, NVarsAssumption, WidthAssumption DEF Cube, Bits, Vars
      <4> QED  BY <4>1 DEF cube32_zero, Cube
    <3>3. \A x \in Points : Covers(p, x) <=> Covers(c, x) /\ Covers(d, x)
      <4> SUFFICES ASSUME NEW x \in Points
                   PROVE  Covers(p, x) <=> Covers(c, x) /\ Covers(d, x)
        OBVIOUS
      <4>1. \A v : v \in c.mask /\ v \in d.mask => (v \in c.polarity <=> v \in d.polarity)
        BY <2>3 DEF SymDiff
      <4> QED  BY <4>1, CubeFields DEF Covers, Cube
    <3>4. Product(c, d) = {p}
      BY <2>1, <3>1, <3>2
    <3> HIDE DEF p
    <3> QED  BY <3>1, <3>3, <3>4 DEF OnSet
  <2> QED  BY <2>2, <2>3
<1> QED  BY <1>2, <1>3

\* The literal of an input runs through its three values.
LEMMA RotateOnce ==
  ASSUME NEW c \in Cubes, NEW v \in Vars
  PROVE  /\ rotate(c, v) \in Cubes
         /\ rotate(c, v).mask = IF v \in c.mask /\ v \notin c.polarity
                                  THEN c.mask \ {v} ELSE c.mask \cup {v}
         /\ rotate(c, v).polarity = IF v \notin c.mask THEN c.polarity \cup {v}
                                                       ELSE c.polarity \ {v}
<1>1. /\ v \in Bits /\ c.mask \in SUBSET Vars /\ c.polarity \in SUBSET c.mask
      /\ Vars \subseteq Bits
  BY CubeFields, VarsFinite
<1>2. rotate(c, v).mask = IF v \in c.mask /\ v \notin c.polarity
                            THEN c.mask \ {v} ELSE c.mask \cup {v}
  BY <1>1 DEF rotate, Cube, SymDiff
<1>3. rotate(c, v).polarity = IF v \notin c.mask THEN c.polarity \cup {v}
                                                 ELSE c.polarity \ {v}
  BY <1>1 DEF rotate, Cube, SymDiff
<1>4. rotate(c, v).polarity \in SUBSET rotate(c, v).mask /\ rotate(c, v).mask \in SUBSET Vars
  BY <1>1, <1>2, <1>3
<1>5. rotate(c, v) = Cube(rotate(c, v).mask, rotate(c, v).polarity)
  BY DEF rotate, Cube
<1> QED  BY <1>2, <1>3, <1>4, <1>5, CubeIntro

\* The two rotations of a literal are the cubes that differ from it there.
LEMMA Rotations ==
  ASSUME NEW c \in Cubes, NEW v \in Vars, NEW x \in Cubes
  PROVE  difference(c, x) = {v} <=> x \in {rotate(c, v), rotate(rotate(c, v), v)}
<1> DEFINE o == rotate(c, v)
           t == rotate(o, v)
<1>1. o \in Cubes /\ t \in Cubes
  BY RotateOnce
<1>2. /\ c.mask \in SUBSET Vars /\ c.polarity \in SUBSET c.mask
      /\ x.mask \in SUBSET Vars /\ x.polarity \in SUBSET x.mask
  BY CubeFields
<1>3. /\ o.mask = IF v \in c.mask /\ v \notin c.polarity THEN c.mask \ {v} ELSE c.mask \cup {v}
      /\ o.polarity = IF v \notin c.mask THEN c.polarity \cup {v} ELSE c.polarity \ {v}
  BY RotateOnce
<1>4. /\ t.mask = IF v \in o.mask /\ v \notin o.polarity THEN o.mask \ {v} ELSE o.mask \cup {v}
      /\ t.polarity = IF v \notin o.mask THEN o.polarity \cup {v} ELSE o.polarity \ {v}
  BY <1>1, RotateOnce
<1>5. \A a, b \in Cubes : a = b <=> a.mask = b.mask /\ a.polarity = b.polarity
  BY DEF Cubes
<1> HIDE DEF o, t
<1>6. difference(c, o) = {v} /\ difference(c, t) = {v}
  BY <1>2, <1>3, <1>4 DEF difference, SymDiff
<1>7. ASSUME difference(c, x) = {v} PROVE x = o \/ x = t
  <2>1. \A w : w # v => (w \in c.mask <=> w \in x.mask) /\ (w \in c.polarity <=> w \in x.polarity)
    BY <1>7 DEF difference, SymDiff
  <2>2. ~ ((v \in c.mask <=> v \in x.mask) /\ (v \in c.polarity <=> v \in x.polarity))
    BY <1>7 DEF difference, SymDiff
  <2>3. x.mask \ {v} = c.mask \ {v} /\ x.polarity \ {v} = c.polarity \ {v}
    BY <2>1
  <2>4. CASE v \notin c.mask
    <3>1. v \notin c.polarity /\ v \in x.mask
      BY <1>2, <2>2, <2>4
    <3>2. /\ o.mask = c.mask \cup {v} /\ o.polarity = c.polarity \cup {v}
          /\ t.mask = c.mask \cup {v} /\ t.polarity = c.polarity
      BY <1>3, <1>4, <2>4, <3>1
    <3>3. x.mask = c.mask \cup {v}
      BY <2>3, <3>1
    <3>4. x.polarity = c.polarity \cup {v} \/ x.polarity = c.polarity
      BY <2>3, <3>1
    <3> QED  BY <1>1, <1>5, <3>2, <3>3, <3>4
  <2>5. CASE v \in c.mask /\ v \in c.polarity
    <3>1. /\ o.mask = c.mask /\ o.polarity = c.polarity \ {v}
          /\ t.mask = c.mask \ {v} /\ t.polarity = c.polarity \ {v}
      BY <1>3, <1>4, <2>5
    <3>2. v \notin x.polarity
      BY <1>2, <2>2, <2>5
    <3>3. x.polarity = c.polarity \ {v}
      BY <2>3, <3>2
    <3>4. x.mask = c.mask \/ x.mask = c.mask \ {v}
      BY <2>3, <2>5
    <3> QED  BY <1>1, <1>5, <3>1, <3>3, <3>4
  <2>6. CASE v \in c.mask /\ v \notin c.polarity
    <3>5. o.mask = c.mask \ {v}
      BY <1>3, <2>6
    <3>6. o.polarity = c.polarity
      BY <1>3, <2>6
    <3>7. t.mask = c.mask
      BY <1>4, <2>6, <3>5
    <3>8. t.polarity = c.polarity \cup {v}
      BY <1>4, <3>5, <3>6
    <3>1. /\ o.mask = c.mask \ {v} /\ o.polarity = c.polarity
          /\ t.mask = c.mask /\ t.polarity = c.polarity \cup {v}
      BY <3>5, <3>6, <3>7, <3>8
    <3>2. CASE v \in x.mask
      <4>1. x.mask = c.mask /\ v \in x.polarity
        BY <2>2, <2>3, <2>6, <3>2
      <4>2. x.polarity = c.polarity \cup {v}
        BY <2>3, <4>1
      <4> QED  BY <1>1, <1>5, <3>1, <4>1, <4>2
    <3>3. CASE v \notin x.mask
      <4>1. v \notin x.polarity
        BY <1>2, <3>3
      <4>2. x.mask = c.mask \ {v} /\ x.polarity = c.polarity
        BY <2>3, <2>6, <3>3, <4>1
      <4> QED  BY <1>1, <1>5, <3>1, <4>2
    <3> QED  BY <3>2, <3>3
  <2> QED  BY <2>4, <2>5, <2>6
<1> QED  BY <1>6, <1>7 DEF o, t

\* What add_cube finds by rotating is what differs in one literal.
LEMMA FindsNeighbours ==
  ASSUME m_curr_esop \in SUBSET Cubes, cube0 \in Cubes, NEW x \in m_curr_esop
  PROVE  /\ \A v \in Vars : Finds(v, x) => distance(cube0, x) = 1
         /\ distance(cube0, x) = 1 => \E v \in Vars, y \in m_curr_esop : Finds(v, y)
<1>1. ASSUME NEW v \in Vars, Finds(v, x) PROVE distance(cube0, x) = 1
  <2>1. x \in {rotate(cube0, v), rotate(rotate(cube0, v), v)}
    BY <1>1 DEF Finds
  <2>2. difference(cube0, x) = {v}
    BY <2>1, Rotations
  <2> QED  BY <2>2, FS_Singleton DEF distance
<1>2. ASSUME distance(cube0, x) = 1 PROVE \E v \in Vars, y \in m_curr_esop : Finds(v, y)
  <2>1. PICK v : difference(cube0, x) = {v}
    BY <1>2, DifferenceIsWord, FS_Singleton DEF distance
  <2>2. v \in Vars
    BY <2>1, DifferenceIsWord
  <2>3. x \in {rotate(cube0, v), rotate(rotate(cube0, v), v)}
    BY <2>1, <2>2, Rotations
  <2> QED  BY <2>2, <2>3 DEF Finds
<1> QED  BY <1>1, <1>2

-----------------------------------------------------------------------------
(* The graph. *)

\* Fanins come before their gates, and outputs read computed objects.
LEMMA GraphIds ==
  ASSUME TypeOK
  PROVE  /\ NVars \in Nat /\ Len(aig.ands) \in Nat /\ Len(aig.outs) \in Nat
         /\ LastId(aig) \in Nat /\ id \in NVars + 1 .. LastId(aig) + 1 /\ id \in Nat
         /\ id <= LastId(aig) => /\ GateOf(id) \in 1 .. Len(aig.ands)
                                 /\ aig.ands[GateOf(id)] \in Edge \X Edge
                                 /\ \A j \in 1 .. 2 : aig.ands[GateOf(id)][j].id \in 0 .. id - 1
         /\ \A k \in 1 .. Len(aig.outs) : /\ aig.outs[k] \in Edge
                                          /\ aig.outs[k].id \in 0 .. LastId(aig)
<1>1. NVars \in Nat
  BY NVarsAssumption, WidthAssumption
<1>2. /\ aig.ands \in Seq(Edge \X Edge) /\ aig.outs \in Seq(Edge)
      /\ \A k \in 1 .. Len(aig.ands), j \in 1 .. 2 : aig.ands[k][j].id < NVars + k
      /\ \A k \in 1 .. Len(aig.outs) : aig.outs[k].id <= LastId(aig)
  BY DEF TypeOK, IsAig, GateId
<1>3. /\ Len(aig.ands) \in Nat /\ Len(aig.outs) \in Nat
      /\ \A k \in 1 .. Len(aig.ands) : aig.ands[k] \in Edge \X Edge
      /\ \A k \in 1 .. Len(aig.outs) : aig.outs[k] \in Edge
  BY <1>2
<1>4. LastId(aig) = NVars + Len(aig.ands) /\ id \in NVars + 1 .. LastId(aig) + 1
  BY <1>1 DEF TypeOK, LastId, GateId
<1>5. ASSUME id <= LastId(aig)
      PROVE  /\ GateOf(id) \in 1 .. Len(aig.ands) /\ NVars + GateOf(id) = id
  BY <1>1, <1>3, <1>4, <1>5 DEF GateOf
<1>6. ASSUME id <= LastId(aig), NEW j \in 1 .. 2
      PROVE  aig.ands[GateOf(id)][j].id \in 0 .. id - 1
  <2>1. aig.ands[GateOf(id)] \in Edge \X Edge
    BY <1>3, <1>5, <1>6
  <2>2. aig.ands[GateOf(id)][j].id \in Nat
    BY <2>1 DEF Edge
  <2>3. aig.ands[GateOf(id)][j].id < id
    BY <1>2, <1>5, <1>6
  <2> QED  BY <1>1, <1>3, <1>4, <2>2, <2>3
<1>7. \A k \in 1 .. Len(aig.outs) : aig.outs[k].id \in 0 .. LastId(aig)
  <2>1. \A k \in 1 .. Len(aig.outs) : aig.outs[k].id \in Nat
    BY <1>3 DEF Edge
  <2> QED  BY <1>1, <1>2, <1>3, <1>4, <2>1
<1> QED  BY <1>1, <1>3, <1>4, <1>5, <1>6, <1>7

\* prepare_input gives an ESOP of the function of an edge.
LEMMA PreparedInput ==
  ASSUME TypeOK, NEW e \in Edge, e.id \in 0 .. id - 1
  PROVE  /\ prepare_input(e) \in Seq(Cubes)
         /\ FunctionOf(prepare_input(e)) = EdgeFunction(Val, e)
<1>1. e.id \in Ids(aig) /\ m_esops[e.id] \in Seq(Cubes)
  BY GraphIds DEF TypeOK, Ids
<1>2. Val[e.id] = FunctionOf(m_esops[e.id])
  BY DEF Val
<1> QED  BY <1>1, <1>2, ComplementOf DEF prepare_input, EdgeFunction, Edge

-----------------------------------------------------------------------------
(* What the actions do to the functions. *)

Accumulated == SymDiff(EsopOf(m_curr_esop), InHand)

\* An iteration of add_cube cancels, merges or inserts the cube in hand.
LEMMA AddCubeStep ==
  ASSUME TypeOK, AddCancel \/ AddMerge \/ AddInsert
  PROVE  /\ pc = "add_cube" /\ pc' \in {"and", "add_cube"}
         /\ m_curr_esop' \subseteq Cubes /\ cube0' \in Cubes
         /\ Accumulated' = Accumulated
<1>1. /\ m_curr_esop \in SUBSET Cubes /\ cube0 \in Cubes /\ pc = "add_cube"
      /\ InHand = OnSet(cube0)
  BY DEF TypeOK, AddCancel, AddMerge, AddInsert, AddCube, InHand
<1>2. EsopOf(m_curr_esop) \in SUBSET Points /\ OnSet(cube0) \in SUBSET Points
  BY DEF EsopOf, OnSet
<1>3. CASE AddCancel
  <2>1. /\ cube0 \in m_curr_esop /\ m_curr_esop' = m_curr_esop \ {cube0}
        /\ pc' = "and" /\ cube0' = cube0
    BY <1>3 DEF AddCancel
  <2>2. EsopOf(m_curr_esop') = SymDiff(EsopOf(m_curr_esop), OnSet(cube0))
    BY <1>1, <2>1, EsopOfRemove
  <2>3. InHand' = {}
    BY <2>1 DEF InHand
  <2> QED  BY <1>1, <2>1, <2>2, <2>3 DEF Accumulated, SymDiff
<1>4. CASE AddMerge
  <2>1. PICK v \in Vars, x \in m_curr_esop :
           Finds(v, x) /\ cube0' = merge(cube0, x) /\ m_curr_esop' = m_curr_esop \ {x}
    BY <1>4 DEF AddMerge
  <2>2. pc' = "add_cube" /\ InHand' = OnSet(cube0')
    BY <1>1, <1>4 DEF AddMerge, InHand
  <2>3. OnSet(cube0') = SymDiff(OnSet(cube0), OnSet(x)) /\ cube0' \in Cubes
    BY <1>1, <2>1, FindsNeighbours, MergeOnSet, MergeIsCube
  <2>4. EsopOf(m_curr_esop') = SymDiff(EsopOf(m_curr_esop), OnSet(x))
    BY <1>1, <2>1, EsopOfRemove
  <2> QED  BY <1>1, <2>1, <2>2, <2>3, <2>4 DEF Accumulated, SymDiff
<1>5. CASE AddInsert
  <2>1. /\ cube0 \notin m_curr_esop /\ m_curr_esop' = m_curr_esop \cup {cube0}
        /\ pc' = "and" /\ cube0' = cube0
    BY <1>5 DEF AddInsert
  <2>2. EsopOf(m_curr_esop') = SymDiff(EsopOf(m_curr_esop), OnSet(cube0))
    BY <1>1, <2>1, EsopOfAdd
  <2>3. InHand' = {}
    BY <2>1 DEF InHand
  <2> QED  BY <1>1, <2>1, <2>2, <2>3 DEF Accumulated, SymDiff
<1> QED  BY <1>3, <1>4, <1>5

\* Going on to the next pair takes the product of the pair into account.
LEMMA PairsNext ==
  ASSUME NEW s \in Seq(Cubes), NEW t \in Seq(Cubes),
         NEW i \in 1 .. Len(s), NEW k \in 1 .. Len(t)
  PROVE  /\ k < Len(t) =>
              Pairs(s, t, i, k + 1) = SymDiff(Pairs(s, t, i, k), OnSet(s[i]) \cap OnSet(t[k]))
         /\ ~ (k < Len(t)) =>
              Pairs(s, t, i + 1, 1) = SymDiff(Pairs(s, t, i, k), OnSet(s[i]) \cap OnSet(t[k]))
<1> DEFINE C    == OnSet(s[i])
           D    == OnSet(t[k])
           Row  == EsopOfSeq(t, 1 .. k - 1)
           All  == FunctionOf(t)
           Rows == EsopOfSeq(s, 1 .. i - 1)
<1>1. /\ Row \in SUBSET Points /\ All \in SUBSET Points /\ Rows \in SUBSET Points
      /\ C \in SUBSET Points /\ D \in SUBSET Points
  BY DEF FunctionOf, EsopOfSeq, OnSet
<1>2. /\ Len(s) \in Nat /\ Len(t) \in Nat /\ DOMAIN t = 1 .. Len(t)
      /\ i \in Nat /\ k \in Nat /\ i <= Len(s) /\ k <= Len(t)
  OBVIOUS
<1>3. Pairs(s, t, i, k) = SymDiff(Rows \cap All, C \cap Row)
  BY <1>2 DEF Pairs
<1>4. EsopOfSeq(t, 1 .. k) = SymDiff(Row, D)
  <2>1. 1 .. k = (1 .. k - 1) \cup {k} /\ k \notin 1 .. k - 1
    OBVIOUS
  <2>2. IsFiniteSet(1 .. k - 1)
    BY FS_Interval
  <2> QED  BY <2>1, <2>2, EsopOfSeqAdd
<1>5. ASSUME k < Len(t) PROVE Pairs(s, t, i, k + 1) = SymDiff(Pairs(s, t, i, k), C \cap D)
  <2>1. (k + 1) - 1 = k
    BY <1>2
  <2>2. Pairs(s, t, i, k + 1) = SymDiff(Rows \cap All, C \cap SymDiff(Row, D))
    BY <1>2, <1>4, <2>1 DEF Pairs
  <2> HIDE DEF C, D, Row, Rows, All
  <2> QED  BY <1>1, <1>3, <2>2 DEF SymDiff
<1>6. ASSUME ~ (k < Len(t)) PROVE Pairs(s, t, i + 1, 1) = SymDiff(Pairs(s, t, i, k), C \cap D)
  <2>1. /\ k = Len(t) /\ (i + 1) - 1 = i /\ 1 .. 1 - 1 = {}
        /\ 1 .. i = (1 .. i - 1) \cup {i} /\ i \notin 1 .. i - 1
    <3>1. k = Len(t) /\ (i + 1) - 1 = i
      <4> HIDE DEF C, D, Row, All, Rows
      <4>1. \A m \in Nat : k <= m /\ ~ (k < m) => k = m
        BY <1>2
      <4>2. \A j \in Nat : (j + 1) - 1 = j
        OBVIOUS
      <4> QED  BY <1>2, <1>6, <4>1, <4>2
    <3>2. 1 .. 1 - 1 = {}
      OBVIOUS
    <3>3. 1 .. i = (1 .. i - 1) \cup {i} /\ i \notin 1 .. i - 1
      OBVIOUS
    <3> QED  BY <3>1, <3>2, <3>3
  <2>2. EsopOfSeq(s, 1 .. i) = SymDiff(Rows, C)
    <3>1. IsFiniteSet(1 .. i - 1)
      BY FS_Interval
    <3> QED  BY <2>1, <3>1, EsopOfSeqAdd
  <2>3. All = SymDiff(Row, D)
    BY <1>2, <1>4, <2>1 DEF FunctionOf
  <2>4. \A y : y \cap {} = {}
    OBVIOUS
  <2>5. EsopOfSeq(t, 1 .. 1 - 1) = {}
    BY <2>1, EsopOfSeqEmpty
  <2>6. Pairs(s, t, i + 1, 1) = SymDiff(SymDiff(Rows, C) \cap All, {})
    BY <2>1, <2>2, <2>4, <2>5 DEF Pairs
  <2> HIDE DEF C, D, Row, Rows, All
  <2> QED  BY <1>1, <1>3, <2>3, <2>6 DEF SymDiff
<1> QED  BY <1>5, <1>6

\* The next pair adds its product to what has to be multiplied.
LEMMA PairStep ==
  ASSUME Control, NextPair
  PROVE  /\ m_esop0[i0] \in Cubes /\ m_esop1[i1] \in Cubes
         /\ i0' \in Nat \ {0} /\ i1' \in Nat \ {0}
         /\ i0' <= Len(m_esop0) + 1 /\ i1' <= Len(m_esop1)
         /\ Multiplied' = SymDiff(Multiplied, OnSet(m_esop0[i0]) \cap OnSet(m_esop1[i1]))
<1>1. /\ m_esop0 \in Seq(Cubes) /\ m_esop1 \in Seq(Cubes)
      /\ m_esop0' = m_esop0 /\ m_esop1' = m_esop1
      /\ i0 \in Nat \ {0} /\ i1 \in Nat \ {0}
      /\ i0 <= Len(m_esop0) /\ i1 <= Len(m_esop1)
  BY DEF Control, TypeOK, WithinBounds, NextPair, fanins
<1>2. Len(m_esop0) \in Nat /\ Len(m_esop1) \in Nat
  BY <1>1
<1>3. i0 \in 1 .. Len(m_esop0) /\ i1 \in 1 .. Len(m_esop1)
  BY <1>1, <1>2
<1>4. m_esop0[i0] \in Cubes /\ m_esop1[i1] \in Cubes
  BY <1>1, <1>3
<1>5. \/ i1 < Len(m_esop1) /\ i1' = i1 + 1 /\ i0' = i0
      \/ ~ (i1 < Len(m_esop1)) /\ i1' = 1 /\ i0' = i0 + 1
  BY DEF NextPair
<1>6. Multiplied' = Pairs(m_esop0, m_esop1, i0', i1')
  BY <1>1 DEF Multiplied, Pairs, FunctionOf
<1>7. Multiplied' = SymDiff(Multiplied, OnSet(m_esop0[i0]) \cap OnSet(m_esop1[i1]))
  BY <1>1, <1>3, <1>5, <1>6, PairsNext DEF Multiplied
<1>8. /\ i0' \in Nat \ {0} /\ i1' \in Nat \ {0}
      /\ i0' <= Len(m_esop0) + 1 /\ i1' <= Len(m_esop1)
  BY <1>1, <1>2, <1>5
<1> QED  BY <1>4, <1>7, <1>8

-----------------------------------------------------------------------------
(* Every state of the collapser satisfies IInv. *)

\* The elementary ESOP of an input.
LEMMA Elementary ==
  ASSUME NEW k \in 1 .. NVars
  PROVE  /\ <<Cube({k - 1}, {k - 1})>> \in Seq(Cubes)
         /\ FunctionOf(<<Cube({k - 1}, {k - 1})>>) = InputFunction(k)
<1> DEFINE c == Cube({k - 1}, {k - 1})
<1>1. NVars \in Nat /\ k \in Nat /\ k # 0
  BY NVarsAssumption, WidthAssumption
<1>2. k - 1 \in Vars
  BY <1>1 DEF Vars
<1>3. c \in Cubes
  BY <1>2, CubeIntro
<1>4. OnSet(c) = {x \in Points : k - 1 \in x}
  BY <1>2 DEF OnSet, Covers, Cube
<1>5. <<>> \in Seq(Cubes) /\ <<c>> = <<c>> \o <<>>
  BY <1>3
<1>6. FunctionOf(<<c>>) = SymDiff(FunctionOf(<<>>), OnSet(c)) /\ <<c>> \in Seq(Cubes)
  BY <1>3, <1>5, FunctionOfCons
<1>7. SymDiff({}, OnSet(c)) = OnSet(c)
  BY DEF SymDiff
<1> QED  BY <1>1, <1>4, <1>6, <1>7, FunctionOfNone DEF InputFunction

\* The collapser starts with the ESOPs of the inputs and of nothing else.
LEMMA InitIInv == Init => IInv
<1> SUFFICES ASSUME Init PROVE IInv
  OBVIOUS
<1>1. NVars \in Nat /\ IsAig(aig)
  BY NVarsAssumption, WidthAssumption, AigsAssumption DEF Init
<1>2. Len(aig.ands) \in Nat
  BY <1>1 DEF IsAig
<1>3. id \in GateId(1) .. LastId(aig) + 1
  BY <1>1, <1>2 DEF Init, GateId, LastId
<1>4. m_esops \in [Ids(aig) -> Seq(Cubes)]
  <2>1. <<>> \in Seq(Cubes)
    OBVIOUS
  <2> QED  BY <2>1, Elementary DEF Init
<1>5. TypeOK
  BY <1>1, <1>3, <1>4, OneIsCube DEF Init, TypeOK
<1>6. NotYet
  BY <1>1 DEF Init, NotYet, GateId, Ids
<1> QED
  BY <1>5, <1>6 DEF Init, IInv, Control, WithinBounds, FreshForGate, FaninsReady, ProductKept

\* Preparing the fanins of a gate.
LEMMA PrepareInputs ==
  ASSUME TypeOK, Prepare
  PROVE  /\ m_esop0' \in Seq(Cubes) /\ m_esop1' \in Seq(Cubes)
         /\ FunctionOf(m_esop0') = EdgeFunction(Val, aig.ands[GateOf(id)][1])
         /\ FunctionOf(m_esop1') = EdgeFunction(Val, aig.ands[GateOf(id)][2])
         /\ i0' = 1 /\ i1' = 1 /\ pc = "node" /\ id <= LastId(aig)
<1>1. /\ aig.ands[GateOf(id)] \in Edge \X Edge
      /\ \A j \in 1 .. 2 : aig.ands[GateOf(id)][j].id \in 0 .. id - 1
  BY GraphIds DEF Prepare
<1>2. /\ aig.ands[GateOf(id)][1] \in Edge /\ aig.ands[GateOf(id)][1].id \in 0 .. id - 1
      /\ aig.ands[GateOf(id)][2] \in Edge /\ aig.ands[GateOf(id)][2].id \in 0 .. id - 1
  BY <1>1
<1> QED  BY <1>2, PreparedInput DEF Prepare

\* Before the first pair nothing has been multiplied.
LEMMA NoPairs == \A s, t : Pairs(s, t, 1, 1) = {}
<1>1. 1 .. 1 - 1 = {}
  OBVIOUS
<1>2. \A s, t : EsopOfSeq(s, 1 .. 1 - 1) \cap FunctionOf(t) = {}
             /\ OnSet(s[1]) \cap EsopOfSeq(t, 1 .. 1 - 1) = {}
  BY <1>1, EsopOfSeqEmpty
<1> QED  BY <1>2 DEF Pairs, SymDiff

\* A gate with a fanin that is 0.
LEMMA PrepareZeroIInv == IInv /\ PrepareZero => IInv'
<1> SUFFICES ASSUME IInv, PrepareZero PROVE IInv'
  OBVIOUS
<1>1. TypeOK /\ NotYet /\ FreshForGate /\ Prepare
  BY DEF IInv, Control, PrepareZero
<1>2. /\ m_esop0' \in Seq(Cubes) /\ m_esop1' \in Seq(Cubes) /\ i0' = 1 /\ i1' = 1
      /\ pc = "node" /\ id <= LastId(aig)
  BY <1>1, PrepareInputs
<1>3. /\ pc' = pc /\ aig' = aig /\ id' = id + 1 /\ m_esops' = m_esops
      /\ m_curr_esop' = m_curr_esop /\ cube0' = cube0 /\ ret' = ret
  BY DEF PrepareZero
<1>4. id' \in GateId(1) .. LastId(aig) + 1
  <2>1. /\ NVars \in Nat /\ LastId(aig) \in Nat
        /\ id \in NVars + 1 .. LastId(aig) + 1 /\ id \in Nat
    BY <1>1, GraphIds
  <2> QED  BY <1>2, <1>3, <2>1 DEF GateId
<1>5. TypeOK'
  <2>1. IsAig(aig') /\ m_esops' \in [Ids(aig') -> Seq(Cubes)]
    BY <1>1, <1>3 DEF TypeOK
  <2>2. pc' \in {"node", "and", "add_cube", "done"} /\ id' \in GateId(1) .. LastId(aig') + 1
    BY <1>2, <1>3, <1>4
  <2>3. m_curr_esop' \subseteq Cubes /\ cube0' \in Cubes /\ ret' \in Seq(Seq(Cubes))
    BY <1>1, <1>3 DEF TypeOK
  <2>4. i0' \in Nat \ {0} /\ i1' \in Nat \ {0}
    BY <1>2
  <2> QED  BY <1>2, <2>1, <2>2, <2>3, <2>4 DEF TypeOK
<1>6. NotYet'
  BY <1>1, <1>3, GraphIds DEF NotYet, Ids
<1> QED
  BY <1>1, <1>2, <1>3, <1>5, <1>6 DEF IInv, Control, WithinBounds, FreshForGate, FaninsReady,
    ProductKept

\* A gate whose fanins are to be multiplied.
LEMMA PrepareAndIInv == IInv /\ PrepareAnd => IInv'
<1> SUFFICES ASSUME IInv, PrepareAnd PROVE IInv'
  OBVIOUS
<1>1. TypeOK /\ NotYet /\ FreshForGate /\ Prepare
  BY DEF IInv, Control, PrepareAnd
<1>2. /\ m_esop0' \in Seq(Cubes) /\ m_esop1' \in Seq(Cubes)
      /\ FunctionOf(m_esop0') = EdgeFunction(Val, aig.ands[GateOf(id)][1])
      /\ FunctionOf(m_esop1') = EdgeFunction(Val, aig.ands[GateOf(id)][2])
      /\ i0' = 1 /\ i1' = 1 /\ pc = "node" /\ id <= LastId(aig)
  BY <1>1, PrepareInputs
<1>3. /\ pc' = "and" /\ aig' = aig /\ id' = id /\ m_esops' = m_esops
      /\ m_curr_esop' = m_curr_esop /\ cube0' = cube0 /\ ret' = ret
      /\ m_esop0' # <<>> /\ m_esop1' # <<>>
  BY DEF PrepareAnd
<1>4. m_curr_esop = {} /\ InHand' = {}
  BY <1>1, <1>2, <1>3 DEF FreshForGate, InHand
<1>5. TypeOK'
  BY <1>1, <1>2, <1>3 DEF TypeOK
<1>6. WithinBounds'
  <2>1. Len(m_esop0') \in Nat /\ Len(m_esop1') \in Nat /\ Len(m_esop1') # 0
    BY <1>2, <1>3
  <2> QED  BY <1>2, <1>3, <2>1 DEF WithinBounds
<1>7. NotYet'
  BY <1>1, <1>3 DEF NotYet
<1>8. FaninsReady'
  <2>1. Val' = Val
    BY <1>3 DEF Val
  <2> QED  BY <1>2, <1>3, <2>1 DEF FaninsReady, FunctionOf
<1>9. ProductKept'
  <2>1. Multiplied' = Pairs(m_esop0', m_esop1', 1, 1)
    BY <1>2 DEF Multiplied, Pairs, FunctionOf
  <2>2. Multiplied' = {}
    BY <2>1, NoPairs
  <2>3. EsopOf(m_curr_esop') = {}
    BY <1>3, <1>4, EsopOfEmpty
  <2> QED  BY <1>4, <2>2, <2>3 DEF ProductKept, SymDiff
<1> QED  BY <1>3, <1>5, <1>6, <1>7, <1>8, <1>9 DEF IInv, Control, FreshForGate

\* A pair of cubes has been taken.
LEMMA PairIInv ==
  ASSUME IInv, Multiply \/ Clash, ProductKept', cube0' \in Cubes, pc' \in {"and", "add_cube"}
  PROVE  IInv'
<1>1. NextPair /\ Control /\ TypeOK /\ NotYet /\ FaninsReady /\ WithinBounds
  BY DEF IInv, Control, Multiply, Clash
<1>2. /\ i0' \in Nat \ {0} /\ i1' \in Nat \ {0}
      /\ i0' <= Len(m_esop0) + 1 /\ i1' <= Len(m_esop1)
  BY <1>1, PairStep
<1>3. /\ pc = "and" /\ aig' = aig /\ id' = id /\ m_esops' = m_esops /\ m_esop0' = m_esop0
      /\ m_esop1' = m_esop1 /\ m_curr_esop' = m_curr_esop /\ ret' = ret
  BY <1>1 DEF NextPair, fanins
<1>4. TypeOK'
  BY <1>1, <1>2, <1>3 DEF TypeOK
<1>5. WithinBounds'
  BY <1>1, <1>2, <1>3 DEF WithinBounds
<1>6. NotYet'
  BY <1>1, <1>3 DEF NotYet
<1>7. FaninsReady'
  <2>1. Val' = Val
    BY <1>3 DEF Val
  <2> QED  BY <1>1, <1>3, <2>1 DEF FaninsReady, FunctionOf
<1>8. FreshForGate'
  BY DEF FreshForGate
<1> QED  BY <1>4, <1>5, <1>6, <1>7, <1>8 DEF IInv, Control

\* The function of the pairs taken so far is a set of points.
LEMMA SumsAreSets ==
  /\ \A S : EsopOf(S) \in SUBSET Points
  /\ \A c : OnSet(c) \in SUBSET Points
  BY DEF EsopOf, OnSet

\* The product of a pair is handed to add_cube.
LEMMA MultiplyIInv == ASSUME NVars < Width PROVE IInv /\ Multiply => IInv'
<1> SUFFICES ASSUME IInv, Multiply PROVE IInv'
  OBVIOUS
<1> DEFINE c == m_esop0[i0]
           d == m_esop1[i1]
<1>1. NextPair /\ Control /\ ProductKept /\ pc = "and"
  BY DEF IInv, Multiply, NextPair
<1>2. /\ c \in Cubes /\ d \in Cubes
      /\ Multiplied' = SymDiff(Multiplied, OnSet(c) \cap OnSet(d))
  BY <1>1, PairStep
<1>3. cube0' \in Product(c, d) /\ pc' = "add_cube" /\ m_curr_esop' = m_curr_esop
  BY DEF Multiply, NextPair
<1> HIDE DEF c, d
<1>4. cube0' \in Cubes /\ OnSet(cube0') = OnSet(c) \cap OnSet(d)
  BY <1>2, <1>3, ProductOf
<1>5. ProductKept'
  <2>1. InHand = {} /\ InHand' = OnSet(c) \cap OnSet(d)
    BY <1>1, <1>3, <1>4 DEF InHand
  <2>2. SymDiff(EsopOf(m_curr_esop), {}) = Multiplied
    BY <1>1, <2>1 DEF ProductKept
  <2>3. EsopOf(m_curr_esop) = Multiplied
    BY <2>2, SumsAreSets DEF SymDiff
  <2>4. EsopOf(m_curr_esop') = EsopOf(m_curr_esop)
    BY <1>3
  <2> QED  BY <1>2, <2>1, <2>3, <2>4 DEF ProductKept
<1> QED  BY <1>3, <1>4, <1>5, PairIInv

\* Two cubes with a literal in common in two polarities: nothing is added.
LEMMA ClashIInv == ASSUME NVars < Width PROVE IInv /\ Clash => IInv'
<1> SUFFICES ASSUME IInv, Clash PROVE IInv'
  OBVIOUS
<1> DEFINE c == m_esop0[i0]
           d == m_esop1[i1]
<1>1. NextPair /\ Control /\ TypeOK /\ ProductKept /\ pc = "and"
  BY DEF IInv, Control, Clash, NextPair
<1>2. /\ c \in Cubes /\ d \in Cubes
      /\ Multiplied' = SymDiff(Multiplied, OnSet(c) \cap OnSet(d))
  BY <1>1, PairStep
<1>3. /\ Product(c, d) = {} /\ pc' = pc /\ m_curr_esop' = m_curr_esop /\ cube0' = cube0
  BY DEF Clash, NextPair
<1> HIDE DEF c, d
<1>4. OnSet(c) \cap OnSet(d) = {}
  BY <1>2, <1>3, ProductOf
<1>5. ProductKept'
  <2>1. InHand = {} /\ InHand' = {}
    BY <1>1, <1>3 DEF InHand
  <2>2. SymDiff(EsopOf(m_curr_esop), {}) = Multiplied
    BY <1>1, <2>1 DEF ProductKept
  <2>3. \A S, T : SymDiff(SymDiff(S, T), {}) = SymDiff(S, T)
    BY DEF SymDiff
  <2>4. EsopOf(m_curr_esop') = EsopOf(m_curr_esop)
    BY <1>3
  <2>5. SymDiff(Multiplied, {}) = Multiplied
    BY <2>2, <2>3
  <2> QED  BY <1>2, <1>4, <2>1, <2>2, <2>4, <2>5 DEF ProductKept
<1>6. cube0' \in Cubes /\ pc' \in {"and", "add_cube"}
  BY <1>1, <1>3 DEF TypeOK
<1> QED  BY <1>5, <1>6, PairIInv

\* The last pair has been taken: m_curr_esop is an ESOP of the gate.
LEMMA GateDone ==
  ASSUME IInv, Store
  PROVE  EsopOf(m_curr_esop) = GateFunction(Val, aig.ands[GateOf(id)])
<1>1. /\ pc = "and" /\ ~ (i0 <= Len(m_esop0)) /\ i0 \in Nat /\ m_esop0 \in Seq(Cubes)
      /\ i0 <= Len(m_esop0) + 1
  BY DEF IInv, Control, TypeOK, WithinBounds, Store
<1>2. i0 - 1 = Len(m_esop0) /\ DOMAIN m_esop0 = 1 .. Len(m_esop0)
  BY <1>1
<1>3. Multiplied = SymDiff(FunctionOf(m_esop0) \cap FunctionOf(m_esop1), {})
  BY <1>1, <1>2 DEF Multiplied, Pairs, FunctionOf
<1>4. SymDiff(EsopOf(m_curr_esop), {}) = Multiplied
  BY <1>1 DEF IInv, ProductKept, InHand
<1>5. EsopOf(m_curr_esop) = FunctionOf(m_esop0) \cap FunctionOf(m_esop1)
  BY <1>3, <1>4 DEF SymDiff
<1> QED  BY <1>1, <1>5 DEF GateFunction, IInv, FaninsReady

\* The ESOP of a gate is stored.
LEMMA StoreIInv ==
  ASSUME IInv, Store
  PROVE  IInv' /\ FunctionOf(m_esops'[id]) = EsopOf(m_curr_esop)
<1>1. /\ TypeOK /\ NotYet /\ WithinBounds /\ pc = "and" /\ id <= LastId(aig)
      /\ m_curr_esop \in SUBSET Cubes
  BY DEF IInv, Control, Store, WithinBounds, TypeOK
<1>2. PICK s \in Orders : m_esops' = [m_esops EXCEPT ![id] = s]
  BY DEF Store
<1>3. s \in Seq(Cubes) /\ FunctionOf(s) = EsopOf(m_curr_esop)
  <2>1. /\ s \in [1 .. Cardinality(m_curr_esop) -> m_curr_esop]
        /\ \A i, k \in DOMAIN s : i # k => s[i] # s[k]
    BY <1>2 DEF Orders
  <2> QED  BY <1>1, <2>1, FunctionOfListing
<1>4. /\ id \in Ids(aig) /\ id \in Nat /\ LastId(aig) \in Nat
  BY <1>1, GraphIds DEF Ids
<1>5. /\ m_curr_esop' = {} /\ id' = id + 1 /\ pc' = "node" /\ aig' = aig /\ ret' = ret
      /\ m_esop0' = m_esop0 /\ m_esop1' = m_esop1 /\ i0' = i0 /\ i1' = i1 /\ cube0' = cube0
  BY DEF Store, fanins, indices
<1>6. /\ m_esops' \in [Ids(aig) -> Seq(Cubes)] /\ m_esops'[id] = s
      /\ \A k \in Ids(aig) : k # id => m_esops'[k] = m_esops[k]
  BY <1>1, <1>2, <1>3, <1>4 DEF TypeOK
<1>7. id' \in GateId(1) .. LastId(aig) + 1
  BY <1>1, <1>4, <1>5, GraphIds DEF GateId
<1>8. TypeOK'
  BY <1>1, <1>5, <1>6, <1>7 DEF TypeOK
<1>9. NotYet'
  BY <1>1, <1>4, <1>5, <1>6 DEF NotYet, Ids
<1>10. IInv'
  BY <1>5, <1>8, <1>9 DEF IInv, Control, WithinBounds, FreshForGate, FaninsReady, ProductKept
<1> QED  BY <1>3, <1>6, <1>10

\* An iteration of add_cube keeps the function multiplied so far.
LEMMA AddCubeIInv == IInv /\ (AddCancel \/ AddMerge \/ AddInsert) => IInv'
<1> SUFFICES ASSUME IInv, AddCancel \/ AddMerge \/ AddInsert PROVE IInv'
  OBVIOUS
<1>1. TypeOK /\ WithinBounds /\ NotYet /\ FaninsReady /\ ProductKept
  BY DEF IInv, Control
<1>2. /\ pc = "add_cube" /\ pc' \in {"and", "add_cube"}
      /\ m_curr_esop' \subseteq Cubes /\ cube0' \in Cubes /\ Accumulated' = Accumulated
  BY <1>1, AddCubeStep
<1>3. /\ aig' = aig /\ id' = id /\ m_esops' = m_esops /\ m_esop0' = m_esop0
      /\ m_esop1' = m_esop1 /\ i0' = i0 /\ i1' = i1 /\ ret' = ret
  BY DEF AddCancel, AddMerge, AddInsert, AddCube, fanins, indices
<1>4. TypeOK'
  BY <1>1, <1>2, <1>3 DEF TypeOK
<1>5. WithinBounds'
  BY <1>1, <1>2, <1>3 DEF WithinBounds
<1>6. NotYet'
  BY <1>1, <1>3 DEF NotYet
<1>7. FaninsReady'
  <2>1. Val' = Val
    BY <1>3 DEF Val
  <2> QED  BY <1>1, <1>2, <1>3, <2>1 DEF FaninsReady, FunctionOf
<1>8. ProductKept'
  <2>1. Multiplied' = Multiplied
    BY <1>3 DEF Multiplied, Pairs, FunctionOf
  <2> QED  BY <1>1, <1>2, <2>1 DEF ProductKept, Accumulated
<1>9. FreshForGate'
  BY <1>2 DEF FreshForGate
<1> QED  BY <1>4, <1>5, <1>6, <1>7, <1>8, <1>9 DEF IInv, Control

\* An output is an edge from an object whose ESOP is known.
LEMMA OutputPrepared ==
  ASSUME TypeOK, Output
  PROVE  /\ m_esop0' \in Seq(Cubes)
         /\ FunctionOf(m_esop0') = EdgeFunction(Val, aig.outs[Len(ret) + 1])
<1> DEFINE e == aig.outs[Len(ret) + 1]
<1>1. Len(ret) \in Nat /\ id = LastId(aig) + 1
  BY GraphIds DEF TypeOK, Output
<1>2. Len(ret) + 1 \in 1 .. Len(aig.outs)
  BY <1>1, GraphIds DEF Output
<1>3. e \in Edge /\ e.id \in 0 .. LastId(aig)
  BY <1>2, GraphIds
<1>4. e.id \in 0 .. id - 1
  BY <1>1, <1>3, GraphIds
<1>5. m_esop0' = prepare_input(e)
  BY DEF Output
<1> HIDE DEF e
<1>6. /\ prepare_input(e) \in Seq(Cubes)
      /\ FunctionOf(prepare_input(e)) = EdgeFunction(Val, e)
  BY <1>3, <1>4, PreparedInput
<1> QED  BY <1>5, <1>6 DEF e

\* An ESOP is returned for an output.
LEMMA OutputIInv == IInv /\ Output => IInv'
<1> SUFFICES ASSUME IInv, Output PROVE IInv'
  OBVIOUS
<1>1. TypeOK /\ NotYet /\ FreshForGate /\ pc = "node"
  BY DEF IInv, Control, Output
<1>2. m_esop0' \in Seq(Cubes)
  BY <1>1, OutputPrepared
<1>3. /\ pc' = pc /\ aig' = aig /\ id' = id /\ m_esops' = m_esops /\ m_esop1' = m_esop1
      /\ m_curr_esop' = m_curr_esop /\ i0' = i0 /\ i1' = i1 /\ cube0' = cube0
      /\ ret' = Append(ret, m_esop0')
  BY DEF Output, indices
<1>4. ret' \in Seq(Seq(Cubes))
  BY <1>1, <1>2, <1>3 DEF TypeOK
<1>5. TypeOK'
  BY <1>1, <1>2, <1>3, <1>4 DEF TypeOK
<1>6. NotYet' /\ FreshForGate'
  BY <1>1, <1>3 DEF NotYet, FreshForGate
<1> QED  BY <1>1, <1>3, <1>5, <1>6 DEF IInv, Control, WithinBounds, FaninsReady, ProductKept

\* No variable that IInv speaks of changes.
LEMMA ElsewhereIInv == IInv /\ (Return \/ UNCHANGED vars) => IInv'
<1> SUFFICES ASSUME IInv, Return \/ UNCHANGED vars PROVE IInv'
  OBVIOUS
<1>1. /\ aig' = aig /\ id' = id /\ m_esops' = m_esops /\ m_esop0' = m_esop0
      /\ m_esop1' = m_esop1 /\ m_curr_esop' = m_curr_esop /\ i0' = i0 /\ i1' = i1
      /\ cube0' = cube0 /\ ret' = ret /\ pc' \in {"done", pc}
      /\ pc' = "done" => pc \in {"node", "done"}
  BY DEF Return, vars, fanins, indices
<1>2. Val' = Val /\ Multiplied' = Multiplied /\ InHand' = IF pc' = "add_cube" THEN OnSet(cube0) ELSE {}
  BY <1>1 DEF Val, Multiplied, Pairs, FunctionOf, InHand
<1>3. TypeOK'
  BY <1>1 DEF IInv, Control, TypeOK
<1>4. WithinBounds' /\ NotYet' /\ FreshForGate'
  BY <1>1 DEF IInv, Control, WithinBounds, NotYet, FreshForGate
<1>5. FaninsReady'
  BY <1>1, <1>2 DEF IInv, FaninsReady, FunctionOf
<1>6. ProductKept'
  BY <1>1, <1>2 DEF IInv, ProductKept, InHand
<1> QED  BY <1>3, <1>4, <1>5, <1>6 DEF IInv, Control

\* Every step of the collapser keeps the inductive invariant.
LEMMA NextIInv == ASSUME NVars < Width PROVE IInv /\ [Next]_vars => IInv'
  BY PrepareZeroIInv, PrepareAndIInv, MultiplyIInv, ClashIInv, StoreIInv, AddCubeIInv,
     OutputIInv, ElsewhereIInv DEF Next, Terminated

\* With an input to spare every state satisfies the inductive invariant.
THEOREM Invariant == ASSUME NVars < Width PROVE Spec => []IInv
<1>1. IInv /\ [Next]_vars => IInv'
  BY NextIInv
<1> QED  BY <1>1, InitIInv, PTL DEF Spec

\* The collapser makes no cube that is not one over the inputs.
THEOREM TypeCorrect == ASSUME NVars < Width PROVE Spec => []TypeOK
<1>1. IInv => TypeOK
  BY DEF IInv, Control
<1> QED  BY <1>1, Invariant, PTL

\* compute_and and add_cube keep the function of the pairs multiplied so far.
THEOREM ProductPreserved == ASSUME NVars < Width PROVE Spec => []ProductKept
<1>1. IInv => ProductKept
  BY DEF IInv
<1> QED  BY <1>1, Invariant, PTL

-----------------------------------------------------------------------------
(* add_cube leaves no two cubes that could be merged. *)

\* An iteration of add_cube inserts a cube only away from the others.
LEMMA AddCubeApart ==
  ASSUME TypeOK, Irredundant, AddCancel \/ AddMerge \/ AddInsert
  PROVE  Irredundant'
<1>1. m_curr_esop \in SUBSET Cubes /\ cube0 \in Cubes
  BY DEF TypeOK
<1>2. CASE m_curr_esop' \subseteq m_curr_esop
  BY <1>2 DEF Irredundant
<1>3. CASE AddInsert /\ cube0 = cube32_one
  BY <1>3 DEF AddInsert, Irredundant
<1>4. CASE AddInsert /\ cube0 # cube32_one
  <2>1. /\ m_curr_esop' = m_curr_esop \cup {cube0} /\ cube0 \notin m_curr_esop
        /\ \A i \in Vars, y \in m_curr_esop : ~ Finds(i, y)
    BY <1>4 DEF AddInsert
  <2>2. ASSUME NEW x \in m_curr_esop
        PROVE  distance(cube0, x) >= 2 /\ distance(x, cube0) >= 2
    <3>1. distance(cube0, x) # 1
      BY <1>1, <2>1, FindsNeighbours
    <3>2. difference(cube0, x) # {} /\ IsFiniteSet(difference(cube0, x))
      <4>1. difference(cube0, x) = {} => cube0.mask = x.mask /\ cube0.polarity = x.polarity
        BY DEF difference, SymDiff
      <4>2. cube0 # x /\ x \in Cubes
        BY <1>1, <2>1
      <4> QED  BY <1>1, <4>1, <4>2, DifferenceIsWord DEF Cubes
    <3>3. distance(cube0, x) \in Nat /\ distance(cube0, x) # 0
      BY <3>2, FS_CardinalityType, FS_EmptySet DEF distance
    <3>4. difference(x, cube0) = difference(cube0, x)
      BY DEF difference, SymDiff
    <3> QED  BY <3>1, <3>3, <3>4 DEF distance
  <2> QED  BY <2>1, <2>2 DEF Irredundant
<1> QED  BY <1>2, <1>3, <1>4 DEF AddCancel, AddMerge

\* The search by rotation misses no neighbour, for every graph and every order.
THEOREM NoneToMerge == ASSUME NVars < Width PROVE Spec => []Irredundant
<1>1. Init => Irredundant
  BY DEF Init, Irredundant
<1>2. IInv /\ Irredundant /\ [Next]_vars => Irredundant'
  <2> SUFFICES ASSUME TypeOK, Irredundant, [Next]_vars PROVE Irredundant'
    BY DEF IInv, Control
  <2>1. CASE AddCancel \/ AddMerge \/ AddInsert
    BY <2>1, AddCubeApart
  <2>2. CASE m_curr_esop' \in {{}, m_curr_esop}
    BY <2>2 DEF Irredundant
  <2> QED  BY <2>1, <2>2 DEF Next, PrepareZero, PrepareAnd, Multiply, Clash, NextPair, Store,
             Output, Return, Terminated, vars
<1> QED  BY <1>1, <1>2, Invariant, PTL DEF Spec

-----------------------------------------------------------------------------
(* The collapser implements AigEval. *)

Results == [k \in 1 .. Len(ret) |-> FunctionOf(ret[k])]

\* Both modules speak of the same graphs and functions.
LEMMA SameMeaning ==
  /\ \A g : Eval!IsAig(g) <=> IsAig(g)
  /\ \A k : Eval!GateId(k) = GateId(k) /\ Eval!GateOf(k) = GateOf(k)
  /\ \A g : Eval!LastId(g) = LastId(g)
  /\ \A k : Eval!InputFunction(k) = InputFunction(k)
  /\ \A v, e : Eval!EdgeFunction(v, e) = EdgeFunction(v, e)
  /\ \A v, g : Eval!GateFunction(v, g) = GateFunction(v, g)
<1>1. Eval!Points = Points
  BY DEF Eval!Points, Points, Eval!Vars, Vars
<1>2. \A v, e : Eval!EdgeFunction(v, e) = EdgeFunction(v, e)
  BY <1>1 DEF Eval!EdgeFunction, EdgeFunction
<1> QED
  BY <1>1, <1>2 DEF Eval!IsAig, IsAig, Eval!Edge, Edge, Eval!GateId, GateId, Eval!GateOf,
    GateOf, Eval!LastId, LastId, Eval!InputFunction, InputFunction, Eval!GateFunction,
    GateFunction

\* The collapser starts with the functions of the inputs.
LEMMA InitRefines == Init => Eval!Init
<1> SUFFICES ASSUME Init PROVE Eval!Init
  OBVIOUS
<1>1. NVars \in Nat /\ IsAig(aig)
  BY NVarsAssumption, WidthAssumption, AigsAssumption DEF Init
<1>2. id = GateId(1) /\ id - 1 = NVars
  BY <1>1 DEF Init, GateId
<1>3. Len(aig.ands) \in Nat
  BY <1>1 DEF IsAig
<1>4. \A k \in 0 .. NVars : k \in Ids(aig)
  BY <1>1, <1>3 DEF Ids, LastId, GateId
<1>5. ASSUME NEW k \in 0 .. NVars PROVE FunctionOf(m_esops[k]) = InputFunction(k)
  <2>1. CASE k = 0
    BY <2>1, <1>1, <1>4, FunctionOfNone DEF Init, InputFunction
  <2>2. CASE k \in 1 .. NVars
    BY <2>2, <1>4, Elementary DEF Init
  <2> QED  BY <1>1, <2>1, <2>2
<1>6. Val = [k \in 0 .. NVars |-> InputFunction(k)]
  BY <1>2, <1>5 DEF Val
<1>7. Results = <<>>
  <2>1. Len(ret) = 0 /\ 1 .. 0 = {}
    BY DEF Init
  <2> QED  BY <2>1 DEF Results
<1> QED  BY <1>1, <1>2, <1>6, <1>7, SameMeaning DEF Eval!Init, Val, Results

\* The ESOPs of the objects up to id, after a step that fills in that of id.
LEMMA ValGrows ==
  ASSUME TypeOK, id' = id + 1, NEW f, FunctionOf(m_esops'[id]) = f,
         \A k \in 0 .. id - 1 : m_esops'[k] = m_esops[k]
  PROVE  Val' = [k \in 0 .. id |-> IF k = id THEN f ELSE Val[k]]
<1>1. id \in Nat /\ id' - 1 = id
  BY GraphIds
<1>2. \A k \in 0 .. id : k # id => k \in 0 .. id - 1
  BY <1>1
<1>3. Val' = [k \in 0 .. id |-> FunctionOf(m_esops'[k])]
  BY <1>1 DEF Val, FunctionOf
<1>4. \A k \in 0 .. id - 1 : FunctionOf(m_esops'[k]) = Val[k]
  BY DEF Val
<1> QED  BY <1>2, <1>3, <1>4

\* Leaving out a gate that is 0, and storing the ESOP of one, compute a gate.
LEMMA GateRefines ==
  ASSUME IInv, PrepareZero \/ Store
  PROVE  Eval!Gate
<1>1. TypeOK
  BY DEF IInv, Control
<1>2. id <= LastId(aig)
  BY DEF PrepareZero, Prepare, Store, IInv, Control, WithinBounds
<1>3. /\ id' = id + 1 /\ aig' = aig /\ ret' = ret
  BY DEF PrepareZero, Store
<1>4. /\ FunctionOf(m_esops'[id]) = GateFunction(Val, aig.ands[GateOf(id)])
      /\ \A k \in 0 .. id - 1 : m_esops'[k] = m_esops[k]
  <2>1. CASE PrepareZero
    <3>1. m_esops' = m_esops /\ Prepare /\ (m_esop0' = <<>> \/ m_esop1' = <<>>)
      BY <2>1 DEF PrepareZero
    <3>2. /\ FunctionOf(m_esop0') = EdgeFunction(Val, aig.ands[GateOf(id)][1])
          /\ FunctionOf(m_esop1') = EdgeFunction(Val, aig.ands[GateOf(id)][2])
      BY <1>1, <3>1, PrepareInputs
    <3>3. GateFunction(Val, aig.ands[GateOf(id)]) = {}
      BY <3>1, <3>2, FunctionOfNone DEF GateFunction
    <3>4. m_esops[id] = <<>>
      BY <1>1, <1>2, GraphIds DEF IInv, NotYet, Ids
    <3> QED  BY <3>1, <3>3, <3>4, FunctionOfNone
  <2>2. CASE Store
    <3>1. FunctionOf(m_esops'[id]) = GateFunction(Val, aig.ands[GateOf(id)])
      BY <2>2, StoreIInv, GateDone
    <3>2. PICK s : m_esops' = [m_esops EXCEPT ![id] = s]
      BY <2>2 DEF Store
    <3>3. \A k \in 0 .. id - 1 : k \in Ids(aig) /\ k # id
      BY <1>1, <1>2, GraphIds DEF Ids
    <3> QED  BY <1>1, <3>1, <3>2, <3>3 DEF TypeOK
  <2> QED  BY <2>1, <2>2
<1>5. Val' = [k \in 0 .. id |-> IF k = id THEN GateFunction(Val, aig.ands[GateOf(id)])
                                          ELSE Val[k]]
  BY <1>1, <1>3, <1>4, ValGrows
<1>6. Results' = Results
  BY <1>3 DEF Results, FunctionOf
<1> QED  BY <1>2, <1>3, <1>5, <1>6, SameMeaning DEF Eval!Gate, Val, Results

\* Appending to a list, seen as a function.
LEMMA AppendIsFunction ==
  ASSUME NEW S, NEW s \in Seq(S), NEW x \in S
  PROVE  Append(s, x) = [k \in 1 .. Len(s) + 1 |-> IF k = Len(s) + 1 THEN x ELSE s[k]]
<1>1. /\ Append(s, x) \in Seq(S) /\ Len(Append(s, x)) = Len(s) + 1 /\ Len(s) \in Nat
      /\ Append(s, x)[Len(s) + 1] = x
      /\ \A k \in 1 .. Len(s) : Append(s, x)[k] = s[k]
  BY AppendProperties
<1>2. Append(s, x) = [k \in 1 .. Len(s) + 1 |-> Append(s, x)[k]]
  <2> \A t \in Seq(S) : t \in [1 .. Len(t) -> S]
    OBVIOUS
  <2> Append(s, x) \in [1 .. Len(s) + 1 -> S]
    BY <1>1
  <2> QED  OBVIOUS
<1>3. \A k \in 1 .. Len(s) + 1 : k # Len(s) + 1 => k \in 1 .. Len(s)
  BY <1>1
<1> QED  BY <1>1, <1>2, <1>3

\* An output of the collapser is an output computed.
LEMMA OutputRefines ==
  ASSUME IInv, Output
  PROVE  Eval!Output
<1>1. TypeOK /\ Len(ret) \in Nat /\ ret \in Seq(Seq(Cubes))
  BY DEF IInv, Control, TypeOK
<1>2. /\ id > LastId(aig) /\ Len(ret) < Len(aig.outs)
      /\ id' = id /\ aig' = aig /\ m_esops' = m_esops /\ ret' = Append(ret, m_esop0')
  BY DEF Output
<1>3. Len(Results) = Len(ret) /\ DOMAIN Results = 1 .. Len(ret) /\ Results \in Seq(SUBSET Points)
  BY <1>1, FunctionIsSet DEF Results, FunctionOf
<1>4. FunctionOf(m_esop0') = EdgeFunction(Val, aig.outs[Len(ret) + 1])
  BY <1>1, OutputPrepared
<1>5. Results' = Append(Results, FunctionOf(m_esop0'))
  <2> DEFINE n == Len(ret)
  <2>1. /\ Len(ret') = n + 1 /\ ret'[n + 1] = m_esop0'
        /\ \A k \in 1 .. n : ret'[k] = ret[k]
    BY <1>1, <1>2
  <2>2. Results' = [k \in 1 .. n + 1 |-> FunctionOf(ret'[k])]
    BY <2>1 DEF Results, FunctionOf
  <2>3. Append(Results, FunctionOf(m_esop0'))
          = [k \in 1 .. n + 1 |-> IF k = n + 1 THEN FunctionOf(m_esop0') ELSE Results[k]]
    BY <1>1, <1>3, AppendIsFunction, FunctionIsSet DEF FunctionOf
  <2>4. \A k \in 1 .. n : Results[k] = FunctionOf(ret[k])
    BY DEF Results
  <2>5. \A k \in 1 .. n + 1 : k # n + 1 => k \in 1 .. n
    BY <1>1
  <2> HIDE DEF n
  <2> QED  BY <2>1, <2>2, <2>3, <2>4, <2>5
<1>6. Val' = Val
  BY <1>2 DEF Val, FunctionOf
<1> QED  BY <1>2, <1>3, <1>4, <1>5, <1>6, SameMeaning DEF Eval!Output, Val, Results

\* Gate by gate and output by output the collapser computes the functions of
\* the graph; no other step touches an ESOP once it has been stored.
THEOREM Refinement == ASSUME NVars < Width PROVE Spec => Implements
<1>1. IInv /\ [Next]_vars => [Eval!Next]_(Eval!evars)
  <2> SUFFICES ASSUME IInv, [Next]_vars PROVE [Eval!Next]_(Eval!evars)
    OBVIOUS
  <2>1. CASE PrepareZero \/ Store
    BY <2>1, GateRefines DEF Eval!Next
  <2>2. CASE Output
    BY <2>2, OutputRefines DEF Eval!Next
  <2>3. CASE id' = id /\ aig' = aig /\ m_esops' = m_esops /\ ret' = ret
    BY <2>3 DEF Eval!evars, FunctionOf
  <2> QED  BY <2>1, <2>2, <2>3 DEF Next, PrepareAnd, Multiply, Clash, NextPair, AddCancel,
             AddMerge, AddInsert, AddCube, Return, Terminated, vars
<1> QED  BY <1>1, InitRefines, Invariant, PTL DEF Spec, Implements, Eval!Spec

-----------------------------------------------------------------------------
(* What is returned at the end. *)

\* The fanins of a gate come before it.
LEMMA FaninsBefore ==
  ASSUME IsAig(aig), NEW k \in NVars + 1 .. LastId(aig)
  PROVE  /\ NVars \in Nat /\ k \in Nat
         /\ aig.ands[GateOf(k)] \in Edge \X Edge
         /\ \A j \in 1 .. 2 : aig.ands[GateOf(k)][j].id \in 0 .. k - 1
<1>1. NVars \in Nat
  BY NVarsAssumption, WidthAssumption
<1>2. /\ aig.ands \in Seq(Edge \X Edge)
      /\ \A n \in 1 .. Len(aig.ands), j \in 1 .. 2 : aig.ands[n][j].id < NVars + n
  BY DEF IsAig, GateId
<1>3. /\ Len(aig.ands) \in Nat
      /\ \A n \in 1 .. Len(aig.ands) : aig.ands[n] \in Edge \X Edge
  BY <1>2
<1>4. k \in Nat /\ GateOf(k) \in 1 .. Len(aig.ands) /\ NVars + GateOf(k) = k
  BY <1>1, <1>3 DEF LastId, GateId, GateOf
<1>5. ASSUME NEW j \in 1 .. 2  PROVE aig.ands[GateOf(k)][j].id \in 0 .. k - 1
  <2>1. aig.ands[GateOf(k)] \in Edge \X Edge
    BY <1>3, <1>4
  <2>2. aig.ands[GateOf(k)][j].id \in Nat
    BY <2>1 DEF Edge
  <2>3. aig.ands[GateOf(k)][j].id < k
    BY <1>2, <1>4
  <2> QED  BY <1>4, <2>2, <2>3
<1> QED  BY <1>1, <1>3, <1>4, <1>5

\* The functions of the objects before id satisfy the graph, and those of the
\* outputs that have been returned are of its edges.
Computed ==
  /\ \A k \in 0 .. NVars : Val[k] = InputFunction(k)
  /\ \A k \in NVars + 1 .. id - 1 : Val[k] = GateFunction(Val, aig.ands[GateOf(k)])
  /\ \A k \in 1 .. Len(ret) : Results[k] = EdgeFunction(Val, aig.outs[k])
  /\ Len(ret) # 0 => id > LastId(aig)
  /\ pc = "done" => id > LastId(aig) /\ Len(ret) = Len(aig.outs)

\* A function of a gate only looks at the objects before it.
LEMMA GateLooksBack ==
  ASSUME NEW k \in Nat, NEW g \in Edge \X Edge, \A j \in 1 .. 2 : g[j].id \in 0 .. k - 1,
         NEW v, NEW w, \A j \in 0 .. k - 1 : v[j] = w[j]
  PROVE  GateFunction(v, g) = GateFunction(w, g)
<1>1. g[1].id \in 0 .. k - 1 /\ g[2].id \in 0 .. k - 1
  OBVIOUS
<1> QED  BY <1>1 DEF GateFunction, EdgeFunction

\* Nothing is computed before the first gate.
LEMMA InitComputed == Init => Computed
<1> SUFFICES ASSUME Init PROVE Computed
  OBVIOUS
<1>1. Eval!Init
  BY InitRefines
<1>2. Val = [k \in 0 .. NVars |-> InputFunction(k)]
  BY <1>1, SameMeaning DEF Eval!Init, Val
<1>3. NVars \in Nat /\ id - 1 = NVars /\ Len(ret) = 0 /\ pc = "node"
  BY NVarsAssumption, WidthAssumption DEF Init, GateId
<1> QED  BY <1>2, <1>3 DEF Computed

\* A gate stored has the function of its fanins.
LEMMA GateComputed ==
  ASSUME IInv, Computed, PrepareZero \/ Store
  PROVE  Computed'
<1>1. Eval!Gate
  BY GateRefines
<1>2. /\ id <= LastId(aig) /\ id' = id + 1 /\ aig' = aig
      /\ ret' = ret /\ pc' # "done"
  BY DEF PrepareZero, Prepare, Store, IInv, Control, WithinBounds
<1>3. Val' = [k \in 0 .. id |->
                IF k = id THEN GateFunction(Val, aig.ands[GateOf(id)]) ELSE Val[k]]
  BY <1>1, SameMeaning DEF Eval!Gate, Val
<1>4. /\ IsAig(aig) /\ NVars \in Nat /\ id \in Nat /\ id \in NVars + 1 .. LastId(aig)
      /\ LastId(aig) \in Nat /\ Len(ret) \in Nat
  BY <1>2, GraphIds DEF IInv, Control, TypeOK
<1>5. Len(ret) = 0
  BY <1>2, <1>4 DEF Computed
<1>6. /\ \A k \in 0 .. id - 1 : Val'[k] = Val[k]
      /\ Val'[id] = GateFunction(Val, aig.ands[GateOf(id)])
  BY <1>3, <1>4
<1>7. ASSUME NEW k \in NVars + 1 .. id
      PROVE  Val'[k] = GateFunction(Val', aig.ands[GateOf(k)])
  <2>1. Val'[k] = GateFunction(Val, aig.ands[GateOf(k)])
    <3>1. CASE k = id
      BY <1>6, <3>1
    <3>2. CASE k # id
      <4>1. k \in NVars + 1 .. id - 1 /\ k \in 0 .. id - 1
        BY <1>4, <3>2
      <4> QED  BY <1>6, <4>1 DEF Computed
    <3> QED  BY <3>1, <3>2
  <2>2. /\ k \in NVars + 1 .. LastId(aig) /\ k \in Nat
        /\ \A j \in 0 .. k - 1 : j \in 0 .. id - 1
    BY <1>4
  <2>3. \A j \in 0 .. k - 1 : Val[j] = Val'[j]
    BY <1>6, <2>2
  <2>4. /\ aig.ands[GateOf(k)] \in Edge \X Edge
        /\ \A j \in 1 .. 2 : aig.ands[GateOf(k)][j].id \in 0 .. k - 1
    BY <1>4, <2>2, FaninsBefore
  <2>5. GateFunction(Val, aig.ands[GateOf(k)]) = GateFunction(Val', aig.ands[GateOf(k)])
    BY <2>2, <2>3, <2>4, GateLooksBack
  <2> QED  BY <2>1, <2>5
<1>8. \A k \in 0 .. NVars : Val'[k] = InputFunction(k)
  <2>1. \A k \in 0 .. NVars : k \in 0 .. id - 1
    BY <1>4
  <2> QED  BY <1>6, <2>1 DEF Computed
<1>9. id' - 1 = id /\ 1 .. 0 = {}
  BY <1>2, <1>4
<1> QED  BY <1>2, <1>5, <1>7, <1>8, <1>9 DEF Computed

\* An output stored has the function of the object it points to.
LEMMA OutputComputed ==
  ASSUME IInv, Computed, Output
  PROVE  Computed'
<1>1. Eval!Output
  BY OutputRefines
<1>2. /\ id > LastId(aig) /\ id' = id /\ aig' = aig /\ pc' = "node"
      /\ Len(ret) \in Nat /\ Len(ret') = Len(ret) + 1
  BY DEF Output, IInv, Control, TypeOK
<1>3. Val' = Val
  BY <1>1 DEF Eval!Output, Val
<1>4. /\ Len(Results) = Len(ret) /\ Results \in Seq(SUBSET Points)
  BY <1>2, FunctionIsSet DEF Results, FunctionOf
<1>5. Results' = Append(Results, EdgeFunction(Val, aig.outs[Len(ret) + 1]))
  BY <1>1, <1>4, SameMeaning DEF Eval!Output, Val, Results
<1>6. /\ Results'[Len(ret) + 1] = EdgeFunction(Val, aig.outs[Len(ret) + 1])
      /\ \A k \in 1 .. Len(ret) : Results'[k] = Results[k]
  BY <1>2, <1>4, <1>5
<1>7. \A k \in 1 .. Len(ret) + 1 : Results'[k] = EdgeFunction(Val, aig.outs[k])
  <2>1. \A k \in 1 .. Len(ret) + 1 : k = Len(ret) + 1 \/ k \in 1 .. Len(ret)
    BY <1>2
  <2> QED  BY <1>6, <2>1 DEF Computed
<1>8. /\ \A k \in 0 .. NVars : Val'[k] = InputFunction(k)
      /\ \A k \in NVars + 1 .. id' - 1 : Val'[k] = GateFunction(Val', aig'.ands[GateOf(k)])
  BY <1>2, <1>3 DEF Computed
<1>9. \A k \in 1 .. Len(ret') : Results'[k] = EdgeFunction(Val', aig'.outs[k])
  BY <1>2, <1>3, <1>7
<1> QED  BY <1>2, <1>8, <1>9 DEF Computed

\* No step undoes what has been computed.
LEMMA NextComputed ==
  ASSUME IInv, Computed, [Next]_vars
  PROVE  Computed'
<1>1. CASE PrepareZero \/ Store
  BY <1>1, GateComputed
<1>2. CASE Output
  BY <1>2, OutputComputed
<1>3. CASE id' = id /\ aig' = aig /\ m_esops' = m_esops /\ ret' = ret
            /\ (pc' = "done" => id > LastId(aig) /\ Len(ret) = Len(aig.outs))
  <2>1. Val' = Val /\ Results' = Results
    BY <1>3 DEF Val, Results, FunctionOf
  <2> QED  BY <1>3, <2>1 DEF Computed
<1>4. CASE UNCHANGED vars
  <2>1. id' = id /\ aig' = aig /\ m_esops' = m_esops /\ ret' = ret /\ pc' = pc
    BY <1>4 DEF vars
  <2> QED  BY <1>3, <2>1 DEF Computed
<1> QED  BY <1>1, <1>2, <1>3, <1>4 DEF Next, PrepareAnd, Multiply, Clash, NextPair, AddCancel,
           AddMerge, AddInsert, AddCube, Return, Terminated

\* The value of an edge is that of its object, complemented or not.
LEMMA EdgeValue ==
  ASSUME NEW x \in Points, NEW e \in Edge, NEW v, NEW b \in BOOLEAN, b <=> x \in v[e.id]
  PROVE  x \in EdgeFunction(v, e) <=> b # e.cmpl
<1>1. e.cmpl \in BOOLEAN
  BY DEF Edge
<1>2. CASE e.cmpl = TRUE
  <2>1. x \in EdgeFunction(v, e) <=> ~ (x \in v[e.id])
    BY <1>2 DEF EdgeFunction
  <2>2. b # e.cmpl <=> b = FALSE
    BY <1>2
  <2> QED  BY <2>1, <2>2
<1>3. CASE e.cmpl = FALSE
  <2>1. x \in EdgeFunction(v, e) <=> x \in v[e.id]
    BY <1>3 DEF EdgeFunction
  <2>2. b # e.cmpl <=> b = TRUE
    BY <1>3
  <2> QED  BY <2>1, <2>2
<1> QED  BY <1>1, <1>2, <1>3

\* At the end the values of the graph at a point are those of the functions
\* that have been computed: both satisfy the same recursive equations.
LEMMA ValuesAre ==
  ASSUME IInv, Computed, id > LastId(aig), NEW x \in Points
  PROVE  \A k \in Ids(aig) : ValueAt(x)[k] \in BOOLEAN /\ (ValueAt(x)[k] <=> x \in Val[k])
<1> DEFINE gate(k)   == aig.ands[GateOf(k)]
           Eq(v, k)  == IF k <= NVars THEN x \in InputFunction(k)
                        ELSE /\ v[gate(k)[1].id] # gate(k)[1].cmpl
                             /\ v[gate(k)[2].id] # gate(k)[2].cmpl
           f         == [k \in Ids(aig) |-> x \in Val[k]]
           w         == ValueAt(x)
<1>1. /\ IsAig(aig) /\ NVars \in Nat /\ id = LastId(aig) + 1 /\ LastId(aig) \in Nat
      /\ NVars <= LastId(aig) /\ Ids(aig) = 0 .. LastId(aig) /\ id - 1 = LastId(aig)
  <2>1. TypeOK
    BY DEF IInv, Control
  <2>2. /\ NVars \in Nat /\ LastId(aig) \in Nat /\ id \in NVars + 1 .. LastId(aig) + 1
        /\ id \in Nat
    BY <2>1, GraphIds
  <2>3. id = LastId(aig) + 1 /\ NVars <= LastId(aig) /\ id - 1 = LastId(aig)
    BY <2>2
  <2> QED  BY <2>1, <2>2, <2>3 DEF TypeOK, Ids
<1>2. ASSUME NEW k \in NVars + 1 .. LastId(aig)
      PROVE  /\ ~ (k <= NVars) /\ gate(k)[1] \in Edge /\ gate(k)[2] \in Edge
             /\ gate(k)[1].id \in 0 .. k - 1 /\ gate(k)[2].id \in 0 .. k - 1
             /\ Val[k] = GateFunction(Val, gate(k))
  <2>1. /\ gate(k) \in Edge \X Edge /\ \A j \in 1 .. 2 : gate(k)[j].id \in 0 .. k - 1
    BY <1>1, FaninsBefore
  <2>2. gate(k)[1].id \in 0 .. k - 1 /\ gate(k)[2].id \in 0 .. k - 1
    <3>1. 1 \in 1 .. 2 /\ 2 \in 1 .. 2
      OBVIOUS
    <3> QED  BY <2>1, <3>1
  <2>3. ~ (k <= NVars)
    BY <1>1
  <2>4. Val[k] = GateFunction(Val, gate(k))
    BY <1>1 DEF Computed
  <2> QED  BY <2>1, <2>2, <2>3, <2>4
<1>3. ASSUME NEW k \in NVars + 1 .. LastId(aig), NEW v,
             \A j \in 0 .. k - 1 : v[j] \in BOOLEAN /\ (v[j] <=> x \in Val[j])
      PROVE  Eq(v, k) <=> x \in Val[k]
  <2> DEFINE e1 == gate(k)[1]
             e2 == gate(k)[2]
  <2>1. /\ e1 \in Edge /\ e2 \in Edge /\ ~ (k <= NVars)
        /\ v[e1.id] \in BOOLEAN /\ (v[e1.id] <=> x \in Val[e1.id])
        /\ v[e2.id] \in BOOLEAN /\ (v[e2.id] <=> x \in Val[e2.id])
    BY <1>2, <1>3
  <2>2. x \in Val[k] <=> x \in EdgeFunction(Val, e1) /\ x \in EdgeFunction(Val, e2)
    BY <1>2 DEF GateFunction
  <2>3. Eq(v, k) <=> v[e1.id] # e1.cmpl /\ v[e2.id] # e2.cmpl
    BY <2>1
  <2> HIDE DEF e1, e2, Eq
  <2>4. x \in EdgeFunction(Val, e1) <=> v[e1.id] # e1.cmpl
    BY <2>1, EdgeValue
  <2>5. x \in EdgeFunction(Val, e2) <=> v[e2.id] # e2.cmpl
    BY <2>1, EdgeValue
  <2> QED  BY <2>2, <2>3, <2>4, <2>5
<1>4. ASSUME NEW k \in 0 .. NVars, NEW v  PROVE Eq(v, k) <=> x \in Val[k]
  BY <1>1 DEF Computed
<1>5. ASSUME NEW v, NEW k  PROVE Eq(v, k) \in BOOLEAN
  <2>1. CASE k <= NVars
    BY <2>1
  <2>2. CASE ~ (k <= NVars)
    <3>1. Eq(v, k) = (/\ v[gate(k)[1].id] # gate(k)[1].cmpl
                      /\ v[gate(k)[2].id] # gate(k)[2].cmpl)
      BY <2>2
    <3> HIDE DEF Eq
    <3> QED  BY <3>1
  <2> QED  BY <2>1, <2>2
<1> HIDE DEF gate
<1>6. f = [k \in Ids(aig) |-> Eq(f, k)]
  <2>1. ASSUME NEW k \in Ids(aig)  PROVE f[k] = Eq(f, k)
    <3>1. f[k] = (x \in Val[k])
      OBVIOUS
    <3>2. Eq(f, k) <=> x \in Val[k]
      <4>1. CASE k \in 0 .. NVars
        BY <1>4, <4>1
      <4>2. CASE k \in NVars + 1 .. LastId(aig)
        <5>1. \A j \in 0 .. k - 1 : j \in Ids(aig)
          BY <1>1
        <5>2. ASSUME NEW j \in 0 .. k - 1
              PROVE  f[j] \in BOOLEAN /\ (f[j] <=> x \in Val[j])
          <6>1. j \in Ids(aig)
            BY <5>1
          <6>2. CASE x \in Val[j]
            <7>1. f[j] = TRUE
              BY <6>1, <6>2
            <7> HIDE DEF f
            <7> QED  BY <6>2, <7>1
          <6>3. CASE ~ (x \in Val[j])
            <7>1. f[j] = (x \in Val[j])
              BY <6>1
            <7>2. (x \in Val[j]) = FALSE
              BY <6>3
            <7>3. f[j] = FALSE
              BY <7>1, <7>2
            <7> HIDE DEF f
            <7> QED  BY <6>3, <7>3
          <6> QED  BY <6>2, <6>3
        <5> HIDE DEF f, Eq
        <5> QED  BY <1>3, <4>2, <5>2
      <4> QED  BY <1>1, <4>1, <4>2
    <3> HIDE DEF f, Eq
    <3> QED  BY <1>5, <3>1, <3>2
  <2>2. f = [k \in Ids(aig) |-> f[k]]
    OBVIOUS
  <2> HIDE DEF f, Eq
  <2> QED  BY <2>1, <2>2
<1>7. w = [k \in Ids(aig) |-> Eq(w, k)]
  <2>1. \E v : v = [k \in Ids(aig) |-> Eq(v, k)]
    <3> HIDE DEF f, Eq
    <3> QED  BY <1>6
  <2> HIDE DEF f
  <2> QED  BY <2>1 DEF ValueAt, gate
<1> HIDE DEF f, w, Eq
<1> DEFINE S == {n \in Nat : \A k \in 0 .. n : k \in Ids(aig) =>
                               w[k] \in BOOLEAN /\ (w[k] <=> x \in Val[k])}
<1>8. 0 \in S
  <2>1. 0 \in Ids(aig) /\ 0 \in 0 .. NVars
    BY <1>1
  <2>2. w[0] = Eq(w, 0) /\ Eq(w, 0) \in BOOLEAN /\ (Eq(w, 0) <=> x \in Val[0])
    BY <1>4, <1>5, <1>7, <2>1
  <2>3. w[0] \in BOOLEAN /\ (w[0] <=> x \in Val[0])
    BY <2>2
  <2> QED  BY <2>3
<1>9. ASSUME NEW n \in Nat, n \in S  PROVE n + 1 \in S
  <2>1. ASSUME n + 1 \in Ids(aig)
        PROVE  w[n + 1] \in BOOLEAN /\ (w[n + 1] <=> x \in Val[n + 1])
    <3>1. w[n + 1] = Eq(w, n + 1) /\ Eq(w, n + 1) \in BOOLEAN
      BY <1>5, <1>7, <2>1
    <3>2. Eq(w, n + 1) <=> x \in Val[n + 1]
      <4>1. CASE n + 1 \in 0 .. NVars
        BY <1>4, <4>1
      <4>2. CASE n + 1 \in NVars + 1 .. LastId(aig)
        <5>1. \A j \in 0 .. n : j \in Ids(aig)
          BY <1>1, <2>1
        <5>2. \A j \in 0 .. n : w[j] \in BOOLEAN /\ (w[j] <=> x \in Val[j])
          BY <1>9, <5>1
        <5>3. n + 1 - 1 = n
          OBVIOUS
        <5> QED  BY <1>3, <4>2, <5>2, <5>3
      <4> QED  BY <1>1, <2>1, <4>1, <4>2
    <3> QED  BY <3>1, <3>2
  <2>2. \A k \in 0 .. n + 1 : k = n + 1 \/ k \in 0 .. n
    OBVIOUS
  <2> QED  BY <1>9, <2>1, <2>2
<1> HIDE DEF S
<1>10. \A n \in Nat : n \in S
  BY <1>8, <1>9, AllNumbers
<1>11. \A k \in Ids(aig) : k \in Nat /\ k \in 0 .. k
  BY <1>1
<1>12. \A k \in Ids(aig) : w[k] \in BOOLEAN /\ (w[k] <=> x \in Val[k])
  BY <1>10, <1>11 DEF S
<1> QED  BY <1>12 DEF w

\* What the collapser returns are the functions of the outputs of the graph,
\* evaluated point by point, for every graph of fewer than Width inputs.
THEOREM OutputsCorrect == ASSUME NVars < Width PROVE Spec => []OutputsComputed
<1>1. Init => IInv /\ Computed
  BY InitIInv, InitComputed
<1>2. IInv /\ Computed /\ [Next]_vars => (IInv /\ Computed)'
  BY NextIInv, NextComputed
<1>3. IInv /\ Computed => OutputsComputed
  <2> SUFFICES ASSUME IInv, Computed, pc = "done"
               PROVE  /\ Len(ret) = Len(aig.outs)
                      /\ \A k \in 1 .. Len(ret) : \A x \in Points :
                           LET o == aig.outs[k]
                           IN  x \in FunctionOf(ret[k]) <=> ValueAt(x)[o.id] # o.cmpl
    BY DEF OutputsComputed
  <2>1. id > LastId(aig) /\ Len(ret) = Len(aig.outs)
    BY DEF Computed
  <2>2. ASSUME NEW k \in 1 .. Len(ret), NEW x \in Points
        PROVE  x \in FunctionOf(ret[k])
                 <=> ValueAt(x)[aig.outs[k].id] # aig.outs[k].cmpl
    <3> DEFINE o == aig.outs[k]
               b == ValueAt(x)[o.id]
    <3>1. FunctionOf(ret[k]) = EdgeFunction(Val, o)
      BY DEF Computed, Results
    <3>2. o \in Edge /\ o.id \in Ids(aig)
      BY <2>1, GraphIds DEF IInv, Control, Ids
    <3>3. b \in BOOLEAN /\ (b <=> x \in Val[o.id])
      BY <2>1, <3>2, ValuesAre
    <3> HIDE DEF o, b
    <3>4. x \in EdgeFunction(Val, o) <=> b # o.cmpl
      BY <3>2, <3>3, EdgeValue
    <3> QED  BY <3>1, <3>4 DEF o, b
  <2> QED  BY <2>1, <2>2
<1> QED  BY <1>1, <1>2, <1>3, PTL DEF Spec
=============================================================================
