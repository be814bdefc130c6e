--------------------------- MODULE EsopToAigProofs ---------------------------
(***************************************************************************)
(* The graph that esop_to_aig builds computes the cover it is built from,  *)
(* for every cover, every number of inputs and every sharing of gates, and *)
(* cleaning it up changes no output.                                       *)
(***************************************************************************)
EXTENDS EsopToAig, Cube32Lemmas

-----------------------------------------------------------------------------
(* The functions of a list of gates. *)

GatesOK(ands) ==
  /\ ands \in Seq(Edge \X Edge)
  /\ \A m \in 1 .. Len(ands), j \in 1 .. 2 : ands[m][j].id < GateId(m)

\* The edges from the objects of a graph with these gates.
EdgesOf(ands) == {e \in Edge : e.id <= GateId(Len(ands))}

\* The equation of an object, and those of all up to the n-th gate.
ValueIn(v, ands, id) ==
  IF id <= NVars THEN InputFunction(id) ELSE GateFunction(v, ands[GateOf(id)])

Solves(v, ands, n) == \A id \in 0 .. GateId(n) : v[id] = ValueIn(v, ands, id)

\* The number of inputs is one.
LEMMA InputsCounted == NVars \in Nat
  BY NVarsAssumption, WidthAssumption

\* The objects a gate reads come before it.
LEMMA Fanins ==
  ASSUME NEW ands, GatesOK(ands), NEW id \in Nat, id > NVars, id <= GateId(Len(ands))
  PROVE  /\ Len(ands) \in Nat /\ GateOf(id) \in 1 .. Len(ands) /\ GateId(GateOf(id)) = id
         /\ ands[GateOf(id)] = <<ands[GateOf(id)][1], ands[GateOf(id)][2]>>
         /\ \A j \in 1 .. 2 : /\ ands[GateOf(id)][j] \in Edge
                              /\ ands[GateOf(id)][j].id \in 0 .. id - 1
<1>1. Len(ands) \in Nat /\ ands \in Seq(Edge \X Edge)
  BY DEF GatesOK
<1>2. GateOf(id) \in 1 .. Len(ands) /\ GateId(GateOf(id)) = id
  BY <1>1, InputsCounted DEF GateOf, GateId
<1>3. ands[GateOf(id)] \in Edge \X Edge
  BY <1>1, <1>2
<1>4. ASSUME NEW j \in 1 .. 2
      PROVE  ands[GateOf(id)][j] \in Edge /\ ands[GateOf(id)][j].id \in 0 .. id - 1
  <2>1. ands[GateOf(id)][j] \in Edge
    BY <1>3
  <2>2. ands[GateOf(id)][j].id \in Nat
    BY <2>1 DEF Edge
  <2>3. ands[GateOf(id)][j].id < id
    BY <1>2 DEF GatesOK
  <2> QED  BY <2>1, <2>2, <2>3
<1> QED  BY <1>1, <1>2, <1>3, <1>4

\* An equation only looks at what comes before its object.
LEMMA SameValue ==
  ASSUME NEW ands, GatesOK(ands), NEW id \in Nat, id <= GateId(Len(ands)),
         NEW u, NEW v, \A i \in 0 .. id - 1 : u[i] = v[i]
  PROVE  ValueIn(u, ands, id) = ValueIn(v, ands, id)
<1>1. CASE id <= NVars
  BY <1>1 DEF ValueIn
<1>2. CASE ~ (id <= NVars)
  <2> DEFINE g == ands[GateOf(id)]
  <2>1. g[1].id \in 0 .. id - 1 /\ g[2].id \in 0 .. id - 1
    <3>1. id > NVars /\ 1 \in 1 .. 2 /\ 2 \in 1 .. 2
      BY <1>2, InputsCounted
    <3> QED  BY <3>1, Fanins
  <2>2. u[g[1].id] = v[g[1].id] /\ u[g[2].id] = v[g[2].id]
    BY <2>1
  <2> QED  BY <1>2, <2>2 DEF ValueIn, GateFunction, EdgeFunction
<1> QED  BY <1>1, <1>2

\* What the equations say is a set of points.
LEMMA ValueIsSet ==
  ASSUME NEW ands, GatesOK(ands), NEW id \in Nat, id <= GateId(Len(ands)),
         NEW v, \A i \in 0 .. id - 1 : v[i] \in SUBSET Points
  PROVE  ValueIn(v, ands, id) \in SUBSET Points
<1>1. CASE id <= NVars
  BY <1>1 DEF ValueIn, InputFunction
<1>2. CASE ~ (id <= NVars)
  <2> DEFINE g == ands[GateOf(id)]
  <2>1. g[1].id \in 0 .. id - 1
    <3>1. id > NVars /\ 1 \in 1 .. 2
      BY <1>2, InputsCounted
    <3> QED  BY <3>1, Fanins
  <2>2. EdgeFunction(v, g[1]) \in SUBSET Points
    BY <2>1 DEF EdgeFunction
  <2> QED  BY <1>2, <2>2 DEF ValueIn, GateFunction
<1> QED  BY <1>1, <1>2

\* The equations have a solution.
LEMMA SolutionExists ==
  ASSUME NEW ands, GatesOK(ands)
  PROVE  \A n \in 0 .. Len(ands) :
           \E v \in [0 .. GateId(n) -> SUBSET Points] : Solves(v, ands, n)
<1> DEFINE S == {n \in Nat : n <= Len(ands) =>
                   \E v \in [0 .. GateId(n) -> SUBSET Points] : Solves(v, ands, n)}
<1>1. Len(ands) \in Nat /\ NVars \in Nat
  BY InputsCounted DEF GatesOK
<1>2. 0 \in S
  <2> DEFINE v == [id \in 0 .. GateId(0) |-> InputFunction(id)]
  <2>1. GateId(0) = NVars
    BY <1>1 DEF GateId
  <2>2. v \in [0 .. GateId(0) -> SUBSET Points]
    BY DEF InputFunction
  <2>3. Solves(v, ands, 0)
    BY <1>1, <2>1 DEF Solves, ValueIn
  <2> QED  BY <2>2, <2>3
<1>3. ASSUME NEW n \in Nat, n \in S, n + 1 <= Len(ands)
      PROVE  \E v \in [0 .. GateId(n + 1) -> SUBSET Points] : Solves(v, ands, n + 1)
  <2>1. PICK u \in [0 .. GateId(n) -> SUBSET Points] : Solves(u, ands, n)
    BY <1>1, <1>3
  <2> DEFINE t == GateId(n + 1)
             v == [id \in 0 .. t |-> IF id = t THEN ValueIn(u, ands, t) ELSE u[id]]
  <2>2. t \in Nat /\ GateId(n) = t - 1 /\ t <= GateId(Len(ands))
    BY <1>1, <1>3 DEF GateId
  <2>3. \A i \in 0 .. t - 1 : i # t /\ i \in 0 .. t /\ i \in 0 .. GateId(n)
    BY <2>2
  <2> HIDE DEF t
  <2>4. \A i \in 0 .. t - 1 : v[i] = u[i] /\ u[i] \in SUBSET Points
    BY <2>1, <2>3
  <2>5. t \in 0 .. t
    BY <2>2
  <2>6. v[t] = ValueIn(u, ands, t) /\ v[t] \in SUBSET Points
    BY <1>3, <2>2, <2>4, <2>5, ValueIsSet
  <2>7. v = [id \in 0 .. t |-> v[id]]
    OBVIOUS
  <2>8. \A i \in 0 .. t : i = t \/ i \in 0 .. t - 1
    BY <2>2
  <2> HIDE DEF v
  <2>9. v \in [0 .. t -> SUBSET Points]
    BY <2>4, <2>6, <2>7, <2>8
  <2>10. ASSUME NEW i \in 0 .. t  PROVE v[i] = ValueIn(v, ands, i)
    <3>1. i \in Nat /\ i <= GateId(Len(ands)) /\ \A j \in 0 .. i - 1 : j \in 0 .. t - 1
      BY <1>1, <2>2 DEF GateId
    <3>2. \A j \in 0 .. i - 1 : v[j] = u[j]
      BY <2>4, <3>1
    <3>3. ValueIn(v, ands, i) = ValueIn(u, ands, i)
      BY <3>1, <3>2, SameValue
    <3>4. CASE i = t
      BY <2>6, <3>3, <3>4
    <3>5. CASE i \in 0 .. t - 1
      BY <2>1, <2>3, <2>4, <3>3, <3>5 DEF Solves
    <3> QED  BY <2>8, <3>4, <3>5
  <2> QED  BY <2>9, <2>10 DEF Solves, t
<1>4. ASSUME NEW n \in Nat, n \in S  PROVE n + 1 \in S
  BY <1>3, <1>4
<1> HIDE DEF S
<1>5. \A n \in Nat : n \in S
  BY <1>2, <1>4, AllNumbers
<1> QED  BY <1>1, <1>5 DEF S

\* So the functions of a graph are what their definition says.
LEMMA FunctionsSolve ==
  ASSUME NEW ands, GatesOK(ands)
  PROVE  /\ ObjectFunctions(ands) \in [0 .. GateId(Len(ands)) -> SUBSET Points]
         /\ Solves(ObjectFunctions(ands), ands, Len(ands))
<1> DEFINE D == 0 .. GateId(Len(ands))
<1>1. Len(ands) \in 0 .. Len(ands)
  BY DEF GatesOK
<1>2. PICK u \in [D -> SUBSET Points] : Solves(u, ands, Len(ands))
  BY <1>1, SolutionExists
<1>3. u = [id \in D |-> ValueIn(u, ands, id)]
  BY <1>2 DEF Solves
<1> DEFINE v == ObjectFunctions(ands)
<1>4. v = [id \in D |-> ValueIn(v, ands, id)]
  BY <1>3 DEF ObjectFunctions, ValueIn
<1> HIDE DEF v
<1>5. Solves(v, ands, Len(ands))
  BY <1>4 DEF Solves
<1> DEFINE S == {n \in Nat : n <= GateId(Len(ands)) => \A i \in 0 .. n : v[i] \in SUBSET Points}
<1>6. GateId(Len(ands)) \in Nat
  BY <1>1, InputsCounted DEF GateId
<1>7. ASSUME NEW n \in Nat, n <= GateId(Len(ands)),
             \A i \in 0 .. n - 1 : v[i] \in SUBSET Points
      PROVE  v[n] \in SUBSET Points
  BY <1>5, <1>6, <1>7, ValueIsSet DEF Solves
<1>8. 0 \in S
  <2>1. v[0] \in SUBSET Points
    BY <1>6, <1>7
  <2> QED  BY <2>1
<1>9. ASSUME NEW n \in Nat, n \in S  PROVE n + 1 \in S
  <2> SUFFICES ASSUME n + 1 <= GateId(Len(ands))
               PROVE  \A i \in 0 .. n + 1 : v[i] \in SUBSET Points
    OBVIOUS
  <2>1. \A i \in 0 .. n : v[i] \in SUBSET Points
    BY <1>6, <1>9
  <2>2. n + 1 - 1 = n /\ \A i \in 0 .. n + 1 : i \in 0 .. n \/ i = n + 1
    OBVIOUS
  <2>3. v[n + 1] \in SUBSET Points
    BY <1>7, <2>1, <2>2
  <2> QED  BY <2>1, <2>2, <2>3
<1> HIDE DEF S
<1>10. \A n \in Nat : n \in S
  BY <1>8, <1>9, AllNumbers
<1>11. \A i \in D : v[i] \in SUBSET Points
  BY <1>6, <1>10 DEF S
<1>12. v = [id \in D |-> v[id]]
  BY <1>4
<1> QED  BY <1>5, <1>11, <1>12 DEF v

-----------------------------------------------------------------------------
(* More gates. *)

\* Gates have been appended.
Grows(ands, more) ==
  /\ GatesOK(ands) /\ GatesOK(more)
  /\ Len(ands) <= Len(more)
  /\ \A m \in 1 .. Len(ands) : more[m] = ands[m]

\* They change no function that there was.
LEMMA FunctionsKept ==
  ASSUME NEW ands, NEW more, Grows(ands, more)
  PROVE  \A id \in 0 .. GateId(Len(ands)) :
           ObjectFunctions(more)[id] = ObjectFunctions(ands)[id]
<1> DEFINE u == ObjectFunctions(ands)
           v == ObjectFunctions(more)
           L == GateId(Len(ands))
           S == {n \in Nat : n <= L => \A i \in 0 .. n : v[i] = u[i]}
<1>1. /\ Len(ands) \in Nat /\ Len(more) \in Nat /\ Len(ands) <= Len(more)
      /\ L \in Nat /\ NVars \in Nat /\ GateId(Len(more)) \in Nat /\ L <= GateId(Len(more))
  BY InputsCounted DEF Grows, GatesOK, GateId
<1>2. Solves(u, ands, Len(ands)) /\ Solves(v, more, Len(more))
  BY FunctionsSolve DEF Grows
<1>3. ASSUME NEW n \in Nat, n <= L, \A i \in 0 .. n - 1 : v[i] = u[i]
      PROVE  v[n] = u[n]
  <2>1. ValueIn(v, more, n) = ValueIn(v, ands, n)
    <3>1. CASE n <= NVars
      BY <3>1 DEF ValueIn
    <3>2. CASE ~ (n <= NVars)
      <4>1. GateOf(n) \in 1 .. Len(ands)
        BY <1>1, <1>3, <3>2 DEF GateOf, GateId
      <4> QED  BY <3>2, <4>1 DEF ValueIn, Grows
    <3> QED  BY <3>1, <3>2
  <2>2. ValueIn(v, ands, n) = ValueIn(u, ands, n)
    BY <1>3, SameValue DEF Grows
  <2>3. n \in 0 .. L /\ n \in 0 .. GateId(Len(more))
    BY <1>1, <1>3
  <2>4. u[n] = ValueIn(u, ands, n) /\ v[n] = ValueIn(v, more, n)
    BY <1>2, <2>3 DEF Solves
  <2> QED  BY <2>1, <2>2, <2>4
<1> HIDE DEF u, v, L
<1>4. 0 \in S
  <2>1. v[0] = u[0]
    BY <1>1, <1>3
  <2> QED  BY <2>1
<1>5. ASSUME NEW n \in Nat, n \in S  PROVE n + 1 \in S
  <2> SUFFICES ASSUME n + 1 <= L
               PROVE  \A i \in 0 .. n + 1 : v[i] = u[i]
    OBVIOUS
  <2>1. \A i \in 0 .. n : v[i] = u[i]
    BY <1>1, <1>5
  <2>2. n + 1 - 1 = n /\ \A i \in 0 .. n + 1 : i \in 0 .. n \/ i = n + 1
    OBVIOUS
  <2>3. v[n + 1] = u[n + 1]
    BY <1>3, <2>1, <2>2
  <2> QED  BY <2>1, <2>2, <2>3
<1> HIDE DEF S
<1>6. \A n \in Nat : n \in S
  BY <1>4, <1>5, AllNumbers
<1> QED  BY <1>1, <1>6 DEF S, u, v, L

\* What an edge carries.
FunctionAt(ands, e) == EdgeFunction(ObjectFunctions(ands), e)

\* An edge goes on carrying what it carried.
LEMMA EdgeKept ==
  ASSUME NEW ands, NEW more, Grows(ands, more), NEW e \in EdgesOf(ands)
  PROVE  /\ e \in EdgesOf(more)
         /\ FunctionAt(more, e) = FunctionAt(ands, e)
<1>1. /\ Len(ands) \in Nat /\ Len(more) \in Nat /\ e \in Edge /\ e.id \in Nat
      /\ e.id <= GateId(Len(ands)) /\ GateId(Len(ands)) \in Nat /\ GateId(Len(more)) \in Nat
      /\ GateId(Len(ands)) <= GateId(Len(more))
  BY InputsCounted DEF Grows, GatesOK, EdgesOf, Edge, GateId
<1>2. e.id \in 0 .. GateId(Len(ands)) /\ e.id <= GateId(Len(more))
  BY <1>1
<1>3. ObjectFunctions(more)[e.id] = ObjectFunctions(ands)[e.id]
  BY <1>2, FunctionsKept
<1> QED  BY <1>1, <1>2, <1>3 DEF FunctionAt, EdgeFunction, EdgesOf

\* A graph grows out of itself, and growing goes on.
LEMMA GrowsOn ==
  /\ \A ands : GatesOK(ands) => Grows(ands, ands)
  /\ \A ands, more, most : Grows(ands, more) /\ Grows(more, most) => Grows(ands, most)
<1>1. \A ands : GatesOK(ands) => Grows(ands, ands)
  BY DEF Grows, GatesOK
<1>2. ASSUME NEW ands, NEW more, NEW most, Grows(ands, more), Grows(more, most)
      PROVE  Grows(ands, most)
  <2>1. Len(ands) \in Nat /\ Len(more) \in Nat /\ Len(most) \in Nat
    BY <1>2 DEF Grows, GatesOK
  <2>2. Len(ands) <= Len(most) /\ \A m \in 1 .. Len(ands) : m \in 1 .. Len(more)
    BY <1>2, <2>1 DEF Grows
  <2> QED  BY <1>2, <2>2 DEF Grows
<1> QED  BY <1>1, <1>2

\* The constants, the inputs and complements.
LEMMA EdgeFunctions ==
  ASSUME NEW ands, GatesOK(ands)
  PROVE  /\ Const0 \in EdgesOf(ands) /\ FunctionAt(ands, Const0) = {}
         /\ Const1 \in EdgesOf(ands) /\ FunctionAt(ands, Const1) = Points
         /\ \A i \in Vars, p \in BOOLEAN :
              /\ To(i + 1, p) \in EdgesOf(ands)
              /\ FunctionAt(ands, To(i + 1, p)) = {x \in Points : i \in x <=> ~ p}
         /\ \A e \in EdgesOf(ands) :
              /\ Not(e) \in EdgesOf(ands)
              /\ FunctionAt(ands, e) \in SUBSET Points
              /\ FunctionAt(ands, Not(e)) = Points \ FunctionAt(ands, e)
<1> DEFINE v == ObjectFunctions(ands)
           L == GateId(Len(ands))
<1>1. Len(ands) \in Nat /\ NVars \in Nat /\ L \in Nat /\ NVars <= L
  BY InputsCounted DEF GatesOK, GateId
<1>2. v \in [0 .. L -> SUBSET Points] /\ Solves(v, ands, Len(ands))
  BY FunctionsSolve
<1>3. \A id \in 0 .. NVars : v[id] = InputFunction(id)
  BY <1>1, <1>2 DEF Solves, ValueIn
<1> HIDE DEF v
<1>4. v[0] = {}
  <2>1. 0 \in 0 .. NVars /\ InputFunction(0) = {}
    BY <1>1 DEF InputFunction
  <2> QED  BY <1>3, <2>1
<1>5. /\ Const0 \in EdgesOf(ands) /\ EdgeFunction(v, Const0) = {}
      /\ Const1 \in EdgesOf(ands) /\ EdgeFunction(v, Const1) = Points
  BY <1>1, <1>4 DEF Const0, Const1, To, EdgesOf, Edge, EdgeFunction
<1>6. ASSUME NEW i \in Vars, NEW p \in BOOLEAN
      PROVE  /\ To(i + 1, p) \in EdgesOf(ands)
             /\ EdgeFunction(v, To(i + 1, p)) = {x \in Points : i \in x <=> ~ p}
  <2>1. i \in Nat /\ i + 1 \in 0 .. NVars /\ i + 1 # 0 /\ i + 1 - 1 = i /\ i + 1 <= L
    BY <1>1 DEF Vars
  <2>2. v[i + 1] = {x \in Points : i \in x}
    <3>1. v[i + 1] = InputFunction(i + 1)
      BY <1>3, <2>1
    <3>2. InputFunction(i + 1) = {x \in Points : i + 1 - 1 \in x}
      BY <2>1 DEF InputFunction
    <3> QED  BY <2>1, <3>1, <3>2
  <2>3. To(i + 1, p) \in EdgesOf(ands)
    BY <2>1 DEF To, EdgesOf, Edge
  <2>4. To(i + 1, p).id = i + 1 /\ To(i + 1, p).cmpl = p
    BY DEF To
  <2>5. CASE p
    BY <2>2, <2>3, <2>4, <2>5 DEF EdgeFunction
  <2>6. CASE ~ p
    BY <2>2, <2>3, <2>4, <2>6 DEF EdgeFunction
  <2> QED  BY <2>5, <2>6
<1>7. ASSUME NEW e \in EdgesOf(ands)
      PROVE  /\ Not(e) \in EdgesOf(ands)
             /\ EdgeFunction(v, e) \in SUBSET Points
             /\ EdgeFunction(v, Not(e)) = Points \ EdgeFunction(v, e)
  <2>1. e.id \in 0 .. L /\ e.cmpl \in BOOLEAN
    BY <1>1 DEF EdgesOf, Edge
  <2>2. v[e.id] \in SUBSET Points
    BY <1>2, <2>1
  <2>3. Not(e).id = e.id /\ Not(e).cmpl = ~ e.cmpl
    BY DEF Not, To
  <2>4. Not(e) \in EdgesOf(ands)
    BY <2>1 DEF EdgesOf, Edge, Not, To
  <2>5. CASE e.cmpl
    BY <2>2, <2>3, <2>4, <2>5 DEF EdgeFunction
  <2>6. CASE ~ e.cmpl
    BY <2>2, <2>3, <2>4, <2>6 DEF EdgeFunction
  <2> QED  BY <2>5, <2>6
<1> QED  BY <1>5, <1>6, <1>7 DEF FunctionAt, v

-----------------------------------------------------------------------------
(* Gia_ManHashAnd and Gia_ManHashXor. *)

\* A result: gates that have grown, and an edge of them that carries f.
Gives(made, ands, f) ==
  /\ Grows(ands, made.ands)
  /\ made.edge \in EdgesOf(made.ands)
  /\ FunctionAt(made.ands, made.edge) = f

\* A gate that is there carries the conjunction of what it reads.
LEMMA GateCarries ==
  ASSUME NEW ands, GatesOK(ands), NEW m \in 1 .. Len(ands)
  PROVE  /\ To(GateId(m), FALSE) \in EdgesOf(ands)
         /\ FunctionAt(ands, To(GateId(m), FALSE))
              = FunctionAt(ands, ands[m][1]) \cap FunctionAt(ands, ands[m][2])
<1> DEFINE v == ObjectFunctions(ands)
           L == GateId(Len(ands))
<1>1. /\ Len(ands) \in Nat /\ NVars \in Nat /\ GateId(m) \in 0 .. L /\ L \in Nat
      /\ GateId(m) > NVars /\ GateOf(GateId(m)) = m
  BY InputsCounted DEF GatesOK, GateId, GateOf
<1>2. v[GateId(m)] = GateFunction(v, ands[m])
  BY <1>1, FunctionsSolve DEF Solves, ValueIn
<1>3. To(GateId(m), FALSE) \in EdgesOf(ands)
  BY <1>1 DEF To, EdgesOf, Edge
<1>4. FunctionAt(ands, To(GateId(m), FALSE)) = v[GateId(m)]
  BY DEF FunctionAt, EdgeFunction, To
<1> QED  BY <1>2, <1>3, <1>4 DEF GateFunction, FunctionAt

\* A gate that is appended.
LEMMA GateAppended ==
  ASSUME NEW ands, GatesOK(ands), NEW a \in EdgesOf(ands), NEW b \in EdgesOf(ands)
  PROVE  Gives(Made(Append(ands, <<a, b>>), To(GateId(Len(ands) + 1), FALSE)), ands,
               FunctionAt(ands, a) \cap FunctionAt(ands, b))
<1> DEFINE more == Append(ands, <<a, b>>)
           e    == To(GateId(Len(ands) + 1), FALSE)
<1>1. /\ Len(ands) \in Nat /\ ands \in Seq(Edge \X Edge) /\ NVars \in Nat
      /\ a \in Edge /\ b \in Edge /\ a.id \in Nat /\ b.id \in Nat
      /\ a.id <= GateId(Len(ands)) /\ b.id <= GateId(Len(ands))
  BY InputsCounted DEF GatesOK, EdgesOf, Edge
<1>2. /\ more \in Seq(Edge \X Edge) /\ Len(more) = Len(ands) + 1
      /\ more[Len(ands) + 1] = <<a, b>>
      /\ \A m \in 1 .. Len(ands) : more[m] = ands[m]
  BY <1>1
<1> HIDE DEF more
<1>3. ASSUME NEW m \in 1 .. Len(more), NEW j \in 1 .. 2
      PROVE  more[m][j].id < GateId(m)
  <2>1. CASE m \in 1 .. Len(ands)
    BY <1>2, <2>1 DEF GatesOK
  <2>2. CASE m = Len(ands) + 1
    <3>1. GateId(Len(ands)) < GateId(m) /\ GateId(m) \in Nat /\ GateId(Len(ands)) \in Nat
      BY <1>1, <2>2 DEF GateId
    <3>2. a.id < GateId(m) /\ b.id < GateId(m)
      BY <1>1, <3>1
    <3>3. more[m][1] = a /\ more[m][2] = b
      BY <1>2, <2>2
    <3>4. j = 1 \/ j = 2
      OBVIOUS
    <3> QED  BY <3>2, <3>3, <3>4
  <2> QED  BY <1>1, <1>2, <2>1, <2>2
<1>4. GatesOK(more)
  BY <1>2, <1>3 DEF GatesOK
<1>5. Grows(ands, more)
  BY <1>1, <1>2, <1>4 DEF Grows
<1>6. Len(ands) + 1 \in 1 .. Len(more)
  BY <1>1, <1>2
<1>7. /\ e \in EdgesOf(more)
      /\ FunctionAt(more, e) = FunctionAt(more, a) \cap FunctionAt(more, b)
  <2>1. /\ e \in EdgesOf(more)
        /\ FunctionAt(more, e) = FunctionAt(more, more[Len(ands) + 1][1])
                                   \cap FunctionAt(more, more[Len(ands) + 1][2])
    BY <1>4, <1>6, GateCarries
  <2>2. more[Len(ands) + 1][1] = a /\ more[Len(ands) + 1][2] = b
    BY <1>2
  <2> QED  BY <2>1, <2>2
<1>8. FunctionAt(more, a) = FunctionAt(ands, a) /\ FunctionAt(more, b) = FunctionAt(ands, b)
  BY <1>5, EdgeKept
<1> QED  BY <1>5, <1>7, <1>8 DEF Gives, Made, more

\* Of some of the gates there is a last one.
LEMMA LastOf ==
  ASSUME NEW n \in Nat, NEW T \in SUBSET (1 .. n), T # {}
  PROVE  Max(T) \in T
<1> DEFINE S == {n - m : m \in T}
<1>1. S \in SUBSET Nat /\ S # {}
  OBVIOUS
<1>2. PICK d \in S : \A s \in S : d <= s
  BY <1>1, LeastNumber
<1>3. PICK m \in T : d = n - m
  BY <1>2
<1>4. \A j \in T : m >= j
  <2> TAKE j \in T
  <2>1. n - j \in S
    OBVIOUS
  <2>2. n - m <= n - j
    BY <1>2, <1>3, <2>1
  <2> QED  BY <2>2
<1>5. \E x \in T : \A y \in T : x >= y
  BY <1>4
<1> QED  BY <1>5 DEF Max

\* What HashAnd returns is the conjunction, gates that are there shared or not.
LEMMA HashAndComputes ==
  ASSUME NEW ands, GatesOK(ands), NEW a \in EdgesOf(ands), NEW b \in EdgesOf(ands)
  PROVE  Gives(HashAnd(ands, a, b), ands, FunctionAt(ands, a) \cap FunctionAt(ands, b))
<1> DEFINE fa   == FunctionAt(ands, a)
           fb   == FunctionAt(ands, b)
           same == {m \in DOMAIN ands : {ands[m][1], ands[m][2]} = {a, b}}
           h    == HashAnd(ands, a, b)
<1>1. /\ FunctionAt(ands, Const0) = {} /\ FunctionAt(ands, Const1) = Points
      /\ Const0 \in EdgesOf(ands)
      /\ fa \in SUBSET Points /\ fb \in SUBSET Points
      /\ FunctionAt(ands, Not(b)) = Points \ fb
  BY EdgeFunctions
<1>2. ASSUME NEW e \in EdgesOf(ands), FunctionAt(ands, e) = fa \cap fb
      PROVE  Gives(Made(ands, e), ands, fa \cap fb)
  BY <1>2, GrowsOn DEF Gives, Made
<1>3. CASE Const0 \in {a, b} \/ a = Not(b)
  <2>1. h = Made(ands, Const0)
    BY <1>3 DEF HashAnd
  <2>2. {} = fa \cap fb
    BY <1>1, <1>3
  <2> QED  BY <1>1, <1>2, <2>1, <2>2
<1>4. CASE ~ (Const0 \in {a, b} \/ a = Not(b)) /\ a = Const1
  <2>1. h = Made(ands, b)
    BY <1>4 DEF HashAnd
  <2>2. fb = fa \cap fb
    BY <1>1, <1>4
  <2> QED  BY <1>2, <2>1, <2>2
<1>5. CASE ~ (Const0 \in {a, b} \/ a = Not(b)) /\ a # Const1 /\ b \in {a, Const1}
  <2>1. h = Made(ands, a)
    BY <1>5 DEF HashAnd
  <2>2. fa = fa \cap fb
    BY <1>1, <1>5
  <2> QED  BY <1>2, <2>1, <2>2
<1>6. CASE /\ ~ (Const0 \in {a, b} \/ a = Not(b)) /\ a # Const1 /\ b \notin {a, Const1}
           /\ same # {}
  <2> DEFINE m == Max(same)
  <2>1. h = Made(ands, To(GateId(m), FALSE))
    BY <1>6 DEF HashAnd
  <2>2. Len(ands) \in Nat /\ DOMAIN ands = 1 .. Len(ands)
    BY DEF GatesOK
  <2>3. m \in same
    BY <1>6, <2>2, LastOf
  <2> HIDE DEF m
  <2>4. /\ To(GateId(m), FALSE) \in EdgesOf(ands)
        /\ FunctionAt(ands, To(GateId(m), FALSE))
             = FunctionAt(ands, ands[m][1]) \cap FunctionAt(ands, ands[m][2])
    BY <2>2, <2>3, GateCarries
  <2>5. \/ ands[m][1] = a /\ ands[m][2] = b
        \/ ands[m][1] = b /\ ands[m][2] = a
    BY <2>3
  <2>6. FunctionAt(ands, To(GateId(m), FALSE)) = fa \cap fb
    BY <2>4, <2>5
  <2> QED  BY <1>2, <2>1, <2>4, <2>6
<1>7. CASE /\ ~ (Const0 \in {a, b} \/ a = Not(b)) /\ a # Const1 /\ b \notin {a, Const1}
           /\ same = {}
  <2>1. h = Made(Append(ands, <<a, b>>), To(GateId(Len(ands) + 1), FALSE))
    BY <1>7 DEF HashAnd
  <2> QED  BY <2>1, GateAppended
<1> QED  BY <1>3, <1>4, <1>5, <1>6, <1>7

\* What HashXor returns is the exclusive sum.
LEMMA HashXorComputes ==
  ASSUME NEW ands, GatesOK(ands), NEW a \in EdgesOf(ands), NEW b \in EdgesOf(ands)
  PROVE  Gives(HashXor(ands, a, b), ands, SymDiff(FunctionAt(ands, a), FunctionAt(ands, b)))
<1> DEFINE fa    == FunctionAt(ands, a)
           fb    == FunctionAt(ands, b)
           left  == HashAnd(ands, a, Not(b))
           right == HashAnd(left.ands, Not(a), b)
           both  == HashAnd(right.ands, Not(left.edge), Not(right.edge))
<1>1. /\ fa \in SUBSET Points /\ fb \in SUBSET Points
      /\ Not(a) \in EdgesOf(ands) /\ FunctionAt(ands, Not(a)) = Points \ fa
      /\ Not(b) \in EdgesOf(ands) /\ FunctionAt(ands, Not(b)) = Points \ fb
  BY EdgeFunctions
<1>2. Gives(left, ands, fa \cap (Points \ fb))
  BY <1>1, HashAndComputes
<1> HIDE DEF left
<1>3. /\ Not(a) \in EdgesOf(left.ands) /\ FunctionAt(left.ands, Not(a)) = Points \ fa
      /\ b \in EdgesOf(left.ands) /\ FunctionAt(left.ands, b) = fb
      /\ GatesOK(left.ands)
  BY <1>1, <1>2, EdgeKept DEF Gives, Grows
<1>4. Gives(right, left.ands, (Points \ fa) \cap fb)
  BY <1>3, HashAndComputes
<1> HIDE DEF right
<1>5. /\ GatesOK(right.ands) /\ right.edge \in EdgesOf(right.ands)
      /\ left.edge \in EdgesOf(right.ands)
      /\ FunctionAt(right.ands, left.edge) = fa \cap (Points \ fb)
      /\ FunctionAt(right.ands, right.edge) = (Points \ fa) \cap fb
  BY <1>2, <1>4, EdgeKept DEF Gives, Grows
<1>6. /\ Not(left.edge) \in EdgesOf(right.ands) /\ Not(right.edge) \in EdgesOf(right.ands)
      /\ FunctionAt(right.ands, Not(left.edge)) = Points \ (fa \cap (Points \ fb))
      /\ FunctionAt(right.ands, Not(right.edge)) = Points \ ((Points \ fa) \cap fb)
  BY <1>5, EdgeFunctions
<1>7. Gives(both, right.ands, (Points \ (fa \cap (Points \ fb)))
                                \cap (Points \ ((Points \ fa) \cap fb)))
  BY <1>5, <1>6, HashAndComputes
<1> HIDE DEF both
<1>8. /\ Not(both.edge) \in EdgesOf(both.ands)
      /\ FunctionAt(both.ands, Not(both.edge))
           = Points \ ((Points \ (fa \cap (Points \ fb))) \cap (Points \ ((Points \ fa) \cap fb)))
  BY <1>7, EdgeFunctions DEF Gives, Grows
<1> HIDE DEF fa, fb
<1>9. Points \ ((Points \ (fa \cap (Points \ fb))) \cap (Points \ ((Points \ fa) \cap fb)))
        = SymDiff(fa, fb)
  BY <1>1 DEF SymDiff
<1>10. Grows(ands, both.ands)
  BY <1>2, <1>4, <1>7, GrowsOn DEF Gives
<1>11. HashXor(ands, a, b) = Made(both.ands, Not(both.edge))
  BY DEF HashXor, left, right, both
<1> QED  BY <1>8, <1>9, <1>10, <1>11 DEF Gives, Made, fa, fb

-----------------------------------------------------------------------------
(* The invariant. *)

\* The graph is one, with at most the outputs that are asked for.
Shape ==
  /\ pc \in {"output", "cube", "literal", "done"}
  /\ cover \in Seq(Seq(Cubes))
  /\ aig \in [ands : Seq(Edge \X Edge), outs : Seq(Edge)]
  /\ GatesOK(aig.ands)
  /\ \A n \in 1 .. Len(aig.outs) : aig.outs[n] \in EdgesOf(aig.ands)
  /\ Len(aig.outs) <= Len(cover)

\* The outputs made have the functions of their cubes.
OutputsMade ==
  \A n \in 1 .. Len(aig.outs) :
    FunctionAt(aig.ands, aig.outs[n]) = FunctionOf(cover[n])

\* root_idx carries the sum of the cubes added.
SumSoFar ==
  pc \in {"cube", "literal"} =>
    /\ Len(aig.outs) < Len(cover)
    /\ c \in 1 .. Len(esop) + 1
    /\ root_idx \in EdgesOf(aig.ands)
    /\ FunctionAt(aig.ands, root_idx) = EsopOfSeq(esop, 1 .. c - 1)

\* The literals of a cube before input n.
Before(d, n) == Cube(d.mask \cap (0 .. n - 1), d.polarity)

\* and_idx carries the product of the literals added.
ProductSoFar ==
  pc = "literal" =>
    /\ c <= Len(esop)
    /\ k \in 0 .. NVars
    /\ and_idx \in EdgesOf(aig.ands)
    /\ FunctionAt(aig.ands, and_idx) = OnSet(Before(esop[c], k))

IInv == Shape /\ OutputsMade /\ SumSoFar /\ ProductSoFar

\* The cubes of the output under way.
LEMMA EsopUnderWay ==
  ASSUME Shape, Len(aig.outs) < Len(cover)
  PROVE  /\ esop \in Seq(Cubes) /\ Len(esop) \in Nat
         /\ Len(aig.outs) \in Nat /\ Len(aig.outs) + 1 \in 1 .. Len(cover)
<1>1. Len(aig.outs) \in Nat /\ Len(cover) \in Nat
  BY DEF Shape
<1>2. Len(aig.outs) + 1 \in 1 .. Len(cover)
  BY <1>1
<1>3. esop \in Seq(Cubes)
  BY <1>2 DEF Shape, esop
<1> QED  BY <1>1, <1>2, <1>3

\* When gates are appended the graph stays one and its outputs what they are.
LEMMA GrowingKeeps ==
  ASSUME Shape, OutputsMade, pc' \in {"output", "cube", "literal", "done"}, cover' = cover,
         NEW ands, Grows(aig.ands, ands), aig' = [aig EXCEPT !.ands = ands]
  PROVE  Shape' /\ OutputsMade' /\ aig'.ands = ands /\ aig'.outs = aig.outs
<1>1. /\ aig'.ands = ands /\ aig'.outs = aig.outs
      /\ aig' \in [ands : Seq(Edge \X Edge), outs : Seq(Edge)]
  BY DEF Shape, Grows, GatesOK
<1>2. \A n \in 1 .. Len(aig.outs) :
        /\ aig.outs[n] \in EdgesOf(ands)
        /\ FunctionAt(ands, aig.outs[n]) = FunctionAt(aig.ands, aig.outs[n])
  BY EdgeKept DEF Shape
<1>3. Shape'
  BY <1>1, <1>2 DEF Shape, Grows
<1>4. OutputsMade'
  BY <1>1, <1>2 DEF OutputsMade
<1> QED  BY <1>1, <1>3, <1>4

\* An output that is appended.
LEMMA OutputAdded ==
  ASSUME Shape, OutputsMade, Len(aig.outs) < Len(cover),
         pc' = "output", cover' = cover,
         NEW e \in EdgesOf(aig.ands), FunctionAt(aig.ands, e) = FunctionOf(esop),
         aig' = [aig EXCEPT !.outs = Append(@, e)]
  PROVE  IInv'
<1> DEFINE more == Append(aig.outs, e)
           n    == Len(aig.outs)
<1>1. n \in Nat /\ Len(cover) \in Nat /\ aig.outs \in Seq(Edge) /\ e \in Edge
  BY DEF Shape, EdgesOf
<1>2. /\ aig' = [aig EXCEPT !.outs = more]
      /\ more \in Seq(Edge) /\ Len(more) = n + 1 /\ more[n + 1] = e
      /\ \A m \in 1 .. n : more[m] = aig.outs[m]
  BY <1>1
<1> HIDE DEF more
<1>3. /\ aig'.ands = aig.ands /\ aig'.outs = more
      /\ aig' \in [ands : Seq(Edge \X Edge), outs : Seq(Edge)]
  BY <1>2 DEF Shape
<1>4. \A m \in 1 .. Len(more) : m \in 1 .. n \/ m = n + 1
  BY <1>1, <1>2
<1>5. Len(more) <= Len(cover) /\ \A m \in 1 .. Len(more) : more[m] \in EdgesOf(aig.ands)
  <2>1. \A m \in 1 .. n : more[m] \in EdgesOf(aig.ands)
    BY <1>2 DEF Shape
  <2>2. Len(more) <= Len(cover)
    BY <1>1, <1>2
  <2> QED  BY <1>2, <1>4, <2>1, <2>2
<1>6. Shape'
  BY <1>3, <1>5 DEF Shape
<1>7. OutputsMade'
  BY <1>2, <1>3, <1>4 DEF OutputsMade, esop
<1> QED  BY <1>6, <1>7 DEF IInv, SumSoFar, ProductSoFar

-----------------------------------------------------------------------------
(* Steps. *)

\* At the beginning nothing is made.
LEMMA InitIInv == Init => IInv
<1> SUFFICES ASSUME Init PROVE IInv
  OBVIOUS
<1>1. cover \in Seq(Seq(Cubes)) /\ Len(cover) \in Nat
  BY EsopsAssumption DEF Init
<1>2. aig.ands = <<>> /\ aig.outs = <<>> /\ Len(aig.outs) = 0
  BY DEF Init
<1>3. aig \in [ands : Seq(Edge \X Edge), outs : Seq(Edge)] /\ GatesOK(aig.ands)
  BY <1>2 DEF Init, GatesOK
<1> QED  BY <1>1, <1>2, <1>3 DEF Init, IInv, Shape, OutputsMade, SumSoFar, ProductSoFar

\* The output without cubes.
LEMMA NextEmptyOutput == IInv /\ EmptyOutput => IInv'
<1> SUFFICES ASSUME IInv, EmptyOutput PROVE IInv'
  OBVIOUS
<1>1. FunctionAt(aig.ands, Const0) = {} /\ Const0 \in EdgesOf(aig.ands)
  BY EdgeFunctions DEF IInv, Shape
<1>2. FunctionOf(esop) = {}
  BY FunctionOfNone DEF EmptyOutput
<1> QED  BY <1>1, <1>2, OutputAdded DEF IInv, EmptyOutput, Building

\* An output is begun with an empty sum.
LEMMA NextStartOutput == IInv /\ StartOutput => IInv'
<1> SUFFICES ASSUME IInv, StartOutput PROVE IInv'
  OBVIOUS
<1>1. FunctionAt(aig.ands, Const0) = {} /\ Const0 \in EdgesOf(aig.ands)
  BY EdgeFunctions DEF IInv, Shape
<1>2. Len(aig.outs) < Len(cover) /\ Len(esop) \in Nat
  BY EsopUnderWay DEF IInv, StartOutput, Building
<1>3. /\ pc' = "cube" /\ c' = 1 /\ root_idx' = Const0
      /\ UNCHANGED <<cover, aig>> /\ UNCHANGED esop
  BY DEF StartOutput, esop
<1>4. 1 .. 1 - 1 = {} /\ 1 \in 1 .. Len(esop) + 1
  BY <1>2
<1>5. SumSoFar'
  BY <1>1, <1>2, <1>3, <1>4, EsopOfSeqEmpty DEF SumSoFar
<1> QED  BY <1>3, <1>5 DEF IInv, Shape, OutputsMade, ProductSoFar

\* A cube is begun with an empty product.
LEMMA NextStartCube == IInv /\ StartCube => IInv'
<1> SUFFICES ASSUME IInv, StartCube PROVE IInv'
  OBVIOUS
<1>1. FunctionAt(aig.ands, Const1) = Points /\ Const1 \in EdgesOf(aig.ands)
  BY EdgeFunctions DEF IInv, Shape
<1>2. Len(aig.outs) < Len(cover) /\ esop \in Seq(Cubes) /\ c \in 1 .. Len(esop)
  BY EsopUnderWay DEF IInv, SumSoFar, StartCube, Building
<1>3. /\ pc = "cube" /\ pc' = "literal" /\ and_idx' = Const1
      /\ k' = (IF esop[c] = cube32_one THEN NVars ELSE 0)
      /\ UNCHANGED <<cover, aig, c, root_idx>> /\ UNCHANGED esop
  BY DEF StartCube, Building, esop
<1>4. k' \in 0 .. NVars
  BY <1>3, InputsCounted
<1>5. esop[c].mask \cap (0 .. k' - 1) = {}
  <2>1. CASE esop[c] = cube32_one
    BY <2>1 DEF cube32_one, Cube
  <2>2. CASE esop[c] # cube32_one
    BY <1>3, <2>2
  <2> QED  BY <2>1, <2>2
<1>6. OnSet(Before(esop[c], k')) = Points
  BY <1>5 DEF OnSet, Before, Cube, Covers
<1>7. ProductSoFar'
  BY <1>1, <1>2, <1>3, <1>4, <1>6 DEF ProductSoFar
<1>8. SumSoFar'
  BY <1>3 DEF IInv, SumSoFar
<1> QED  BY <1>3, <1>7, <1>8 DEF IInv, Shape, OutputsMade

\* One more literal, if the input has one, and one more input.
LEMMA OneMoreInput ==
  ASSUME NEW d \in Cubes, NEW n \in Vars
  PROVE  OnSet(Before(d, n + 1))
           = IF n \in d.mask
               THEN OnSet(Before(d, n)) \cap {x \in Points : n \in x <=> n \in d.polarity}
               ELSE OnSet(Before(d, n))
<1> DEFINE a == d.mask \cap (0 .. n - 1)
           b == d.mask \cap (0 .. n + 1 - 1)
<1>1. n \in Nat /\ 0 .. n + 1 - 1 = (0 .. n - 1) \cup {n} /\ n \notin 0 .. n - 1
  BY DEF Vars
<1>2. b = IF n \in d.mask THEN a \cup {n} ELSE a
  BY <1>1
<1>3. n \notin a
  BY <1>1
<1> DEFINE F(m) == {x \in Points : m \cap x = m \cap d.polarity}
<1>4. OnSet(Before(d, n)) = F(a) /\ OnSet(Before(d, n + 1)) = F(b)
  <2>1. \A j \in Nat : /\ Before(d, j).mask = d.mask \cap (0 .. j - 1)
                      /\ Before(d, j).polarity = d.polarity
    BY DEF Before, Cube
  <2>2. \A j \in Nat : OnSet(Before(d, j)) = F(d.mask \cap (0 .. j - 1))
    BY <2>1 DEF OnSet, Covers
  <2>3. /\ OnSet(Before(d, n)) = F(d.mask \cap (0 .. n - 1))
        /\ OnSet(Before(d, n + 1)) = F(d.mask \cap (0 .. n + 1 - 1))
    <3>1. n \in Nat /\ n + 1 \in Nat
      BY <1>1
    <3> HIDE DEF F
    <3> QED  BY <2>2, <3>1
  <2> QED  BY <2>3
<1> HIDE DEF a, b
<1>5. CASE n \in d.mask
  <2>1. ASSUME NEW x
        PROVE  (a \cup {n}) \cap x = (a \cup {n}) \cap d.polarity
                 <=> a \cap x = a \cap d.polarity /\ (n \in x <=> n \in d.polarity)
    BY <1>3
  <2> QED  BY <1>2, <1>4, <1>5, <2>1
<1>6. CASE n \notin d.mask
  BY <1>2, <1>4, <1>6
<1> QED  BY <1>5, <1>6

\* A literal is multiplied to the product.
LEMMA NextAddLiteral == IInv /\ AddLiteral => IInv'
<1> SUFFICES ASSUME IInv, AddLiteral PROVE IInv'
  OBVIOUS
<1> DEFINE h == HashAnd(aig.ands, and_idx, Lit(k))
           d == esop[c]
<1>1. /\ Len(aig.outs) < Len(cover) /\ esop \in Seq(Cubes) /\ c \in 1 .. Len(esop)
      /\ and_idx \in EdgesOf(aig.ands) /\ root_idx \in EdgesOf(aig.ands)
      /\ FunctionAt(aig.ands, and_idx) = OnSet(Before(d, k))
      /\ k \in 0 .. NVars /\ k < NVars /\ k \in d.mask /\ d \in Cubes
  BY EsopUnderWay DEF IInv, SumSoFar, ProductSoFar, AddLiteral, Building
<1>2. k \in Vars /\ k + 1 \in 0 .. NVars
  BY <1>1, InputsCounted DEF Vars
<1>3. /\ pc' = "literal" /\ and_idx' = h.edge /\ aig' = [aig EXCEPT !.ands = h.ands]
      /\ k' = k + 1 /\ UNCHANGED <<cover, c, root_idx>>
  BY DEF AddLiteral, Building
<1>4. /\ Lit(k) \in EdgesOf(aig.ands)
      /\ FunctionAt(aig.ands, Lit(k)) = {x \in Points : k \in x <=> k \in d.polarity}
  <2> DEFINE p == k \notin d.polarity
  <2>1. p \in BOOLEAN /\ Lit(k) = To(k + 1, p) /\ (~ p <=> k \in d.polarity)
    BY DEF Lit
  <2> HIDE DEF p
  <2>2. GatesOK(aig.ands)
    BY DEF IInv, Shape
  <2>3. /\ To(k + 1, p) \in EdgesOf(aig.ands)
        /\ FunctionAt(aig.ands, To(k + 1, p)) = {x \in Points : k \in x <=> ~ p}
    BY <1>2, <2>1, <2>2, EdgeFunctions
  <2> QED  BY <2>1, <2>3
<1>5. Gives(h, aig.ands, OnSet(Before(d, k)) \cap {x \in Points : k \in x <=> k \in d.polarity})
  BY <1>1, <1>4, HashAndComputes DEF IInv, Shape
<1> HIDE DEF h
<1>6. Gives(h, aig.ands, OnSet(Before(d, k + 1)))
  BY <1>1, <1>2, <1>5, OneMoreInput
<1>7. Shape' /\ OutputsMade' /\ aig'.ands = h.ands /\ aig'.outs = aig.outs
  BY <1>3, <1>6, GrowingKeeps DEF IInv, Gives
<1>8. esop' = esop
  BY <1>3, <1>7 DEF esop
<1>9. SumSoFar'
  <2>1. /\ root_idx \in EdgesOf(h.ands)
        /\ FunctionAt(h.ands, root_idx) = FunctionAt(aig.ands, root_idx)
    BY <1>1, <1>6, EdgeKept DEF Gives
  <2>2. /\ c \in 1 .. Len(esop) + 1
        /\ FunctionAt(aig.ands, root_idx) = EsopOfSeq(esop, 1 .. c - 1)
    BY DEF IInv, SumSoFar, AddLiteral, Building
  <2> QED  BY <1>1, <1>3, <1>7, <1>8, <2>1, <2>2 DEF SumSoFar
<1>10. ProductSoFar'
  BY <1>1, <1>2, <1>3, <1>6, <1>7, <1>8 DEF ProductSoFar, Gives
<1> QED  BY <1>7, <1>9, <1>10 DEF IInv

\* A variable without a literal leaves the product.
LEMMA NextSkipLiteral == IInv /\ SkipLiteral => IInv'
<1> SUFFICES ASSUME IInv, SkipLiteral PROVE IInv'
  OBVIOUS
<1>1. /\ esop \in Seq(Cubes) /\ c \in 1 .. Len(esop) /\ esop[c] \in Cubes
      /\ FunctionAt(aig.ands, and_idx) = OnSet(Before(esop[c], k))
      /\ k \in 0 .. NVars /\ k < NVars /\ k \notin esop[c].mask
  BY EsopUnderWay DEF IInv, SumSoFar, ProductSoFar, SkipLiteral, Building
<1>2. k \in Vars /\ k + 1 \in 0 .. NVars
  BY <1>1, InputsCounted DEF Vars
<1>3. OnSet(Before(esop[c], k + 1)) = OnSet(Before(esop[c], k))
  BY <1>1, <1>2, OneMoreInput
<1>4. /\ pc = "literal" /\ k' = k + 1
      /\ UNCHANGED <<pc, cover, aig, c, and_idx, root_idx>> /\ UNCHANGED esop
  BY DEF SkipLiteral, Building, esop
<1>5. ProductSoFar'
  BY <1>2, <1>3, <1>4 DEF IInv, ProductSoFar
<1> QED  BY <1>4, <1>5 DEF IInv, Shape, OutputsMade, SumSoFar

\* A finished product is added to the sum.
LEMMA NextAddCube == IInv /\ AddCube => IInv'
<1> SUFFICES ASSUME IInv, AddCube PROVE IInv'
  OBVIOUS
<1> DEFINE h == HashXor(aig.ands, root_idx, and_idx)
           d == esop[c]
<1>1. /\ Len(aig.outs) < Len(cover) /\ esop \in Seq(Cubes) /\ c \in 1 .. Len(esop)
      /\ Len(esop) \in Nat /\ d \in Cubes
      /\ and_idx \in EdgesOf(aig.ands) /\ root_idx \in EdgesOf(aig.ands)
      /\ FunctionAt(aig.ands, root_idx) = EsopOfSeq(esop, 1 .. c - 1)
      /\ FunctionAt(aig.ands, and_idx) = OnSet(Before(d, k)) /\ k = NVars
  BY EsopUnderWay DEF IInv, SumSoFar, ProductSoFar, AddCube, Building
<1>2. OnSet(Before(d, k)) = OnSet(d)
  <2>1. d.mask \cap (0 .. NVars - 1) = d.mask
    BY <1>1, CubeFields DEF Vars
  <2> QED  BY <1>1, <2>1 DEF OnSet, Before, Cube, Covers
<1>3. /\ pc' = "cube" /\ root_idx' = h.edge /\ aig' = [aig EXCEPT !.ands = h.ands]
      /\ c' = c + 1 /\ UNCHANGED <<cover, k, and_idx>>
  BY DEF AddCube, Building
<1>4. Gives(h, aig.ands, SymDiff(EsopOfSeq(esop, 1 .. c - 1), OnSet(d)))
  BY <1>1, <1>2, HashXorComputes DEF IInv, Shape
<1> HIDE DEF h
<1>5. EsopOfSeq(esop, 1 .. c + 1 - 1) = SymDiff(EsopOfSeq(esop, 1 .. c - 1), OnSet(d))
  <2> DEFINE n == c - 1
  <2>1. c \in Nat /\ n \in Nat /\ c = n + 1
    BY <1>1
  <2> HIDE DEF n
  <2>2. IsFiniteSet(1 .. n)
    BY <2>1, FS_Interval
  <2>3. c \notin 1 .. n /\ 1 .. c + 1 - 1 = (1 .. n) \cup {c}
    BY <2>1
  <2> QED  BY <2>2, <2>3, EsopOfSeqAdd DEF n
<1>6. Shape' /\ OutputsMade' /\ aig'.ands = h.ands /\ aig'.outs = aig.outs
  BY <1>3, <1>4, GrowingKeeps DEF IInv, Gives
<1>7. esop' = esop
  BY <1>3, <1>6 DEF esop
<1>8. c + 1 \in 1 .. Len(esop) + 1
  BY <1>1
<1>9. SumSoFar'
  BY <1>1, <1>3, <1>4, <1>5, <1>6, <1>7, <1>8 DEF SumSoFar, Gives
<1> QED  BY <1>3, <1>6, <1>9 DEF IInv, ProductSoFar

\* A finished sum is the function of its output.
LEMMA NextEndOutput == IInv /\ EndOutput => IInv'
<1> SUFFICES ASSUME IInv, EndOutput PROVE IInv'
  OBVIOUS
<1>1. /\ Len(aig.outs) < Len(cover) /\ esop \in Seq(Cubes) /\ Len(esop) \in Nat
      /\ c \in 1 .. Len(esop) + 1 /\ c > Len(esop)
      /\ root_idx \in EdgesOf(aig.ands)
      /\ FunctionAt(aig.ands, root_idx) = EsopOfSeq(esop, 1 .. c - 1)
  BY EsopUnderWay DEF IInv, SumSoFar, EndOutput, Building
<1>2. 1 .. c - 1 = DOMAIN esop
  BY <1>1
<1>3. FunctionAt(aig.ands, root_idx) = FunctionOf(esop)
  BY <1>1, <1>2 DEF FunctionOf
<1> QED  BY <1>1, <1>3, OutputAdded DEF IInv, EndOutput

-----------------------------------------------------------------------------
(* Gia_ManCleanup. *)

\* The step of NeededBack at its n-th gate.
BackStep(ids, n) ==
  LET m == Len(aig.ands) + 1 - n
  IN  IF GateId(m) \in ids
        THEN ids \cup {aig.ands[m][1].id, aig.ands[m][2].id}
        ELSE ids

\* The traversal does what its definition says.
LEMMA NeededSteps ==
  ASSUME Shape
  PROVE  /\ NeededBack[0] = {e.id : e \in ToSet(aig.outs)}
         /\ \A n \in 1 .. Len(aig.ands) : NeededBack[n] = BackStep(NeededBack[n - 1], n)
<1> DEFINE L == Len(aig.ands)
           a == {e.id : e \in ToSet(aig.outs)}
           Eq(v, n) == IF n = 0 THEN a ELSE BackStep(v[n - 1], n)
           G == [q \in Nat \X SUBSET Nat |->
                   IF q[1] \in 1 .. L THEN BackStep(q[2], q[1]) ELSE q[2]]
<1>1. L \in Nat /\ aig.ands \in Seq(Edge \X Edge) /\ aig.outs \in Seq(Edge)
  BY DEF Shape
<1>2. a \in SUBSET Nat
  <2>1. ASSUME NEW e \in ToSet(aig.outs)  PROVE e.id \in Nat
    <3>1. e \in Edge
      BY <1>1 DEF ToSet
    <3> QED  BY <3>1 DEF Edge
  <2> QED  BY <2>1
<1>3. ASSUME NEW ids \in SUBSET Nat, NEW n \in 1 .. L
      PROVE  BackStep(ids, n) \in SUBSET Nat
  <2> DEFINE m == L + 1 - n
  <2>1. m \in 1 .. L
    BY <1>1
  <2>2. aig.ands[m] \in Edge \X Edge
    BY <1>1, <2>1
  <2>3. aig.ands[m][1].id \in Nat /\ aig.ands[m][2].id \in Nat
    BY <2>2 DEF Edge
  <2> QED  BY <2>3 DEF BackStep
<1>4. G \in [Nat \X SUBSET Nat -> SUBSET Nat]
  <2>1. ASSUME NEW q \in Nat \X SUBSET Nat
        PROVE  (IF q[1] \in 1 .. L THEN BackStep(q[2], q[1]) ELSE q[2]) \in SUBSET Nat
    BY <1>3
  <2> QED  BY <2>1
<1>5. ASSUME NEW n \in 1 .. L, NEW ids \in SUBSET Nat
      PROVE  G[<<n, ids>>] = BackStep(ids, n)
  <2>1. <<n, ids>> \in Nat \X SUBSET Nat /\ <<n, ids>>[1] = n /\ <<n, ids>>[2] = ids
    BY <1>1
  <2> QED  BY <2>1
<1> HIDE DEF a, G
<1>6. PICK h \in [Nat -> SUBSET Nat] : StepsBy(h, a, G)
  BY <1>2, <1>4, Recursion
<1> DEFINE f == [n \in 0 .. L |-> h[n]]
<1>7. ASSUME NEW n \in 0 .. L  PROVE f[n] = Eq(f, n)
  <2>1. CASE n = 0
    BY <1>6, <2>1 DEF StepsBy
  <2>2. CASE n # 0
    <3>1. n - 1 \in Nat /\ n - 1 \in 0 .. L /\ n \in 1 .. L /\ n - 1 + 1 = n
      BY <1>1, <2>2
    <3>2. h[n] = G[<<n, h[n - 1]>>]
      BY <1>6, <3>1 DEF StepsBy
    <3>3. h[n] = BackStep(h[n - 1], n)
      BY <1>5, <3>1, <3>2
    <3> QED  BY <2>2, <3>1, <3>3
  <2> QED  BY <2>1, <2>2
<1>8. f = [n \in 0 .. L |-> f[n]]
  OBVIOUS
<1> HIDE DEF f, Eq
<1>9. f = [n \in 0 .. L |-> Eq(f, n)]
  BY <1>7, <1>8
<1>10. \E v : v = [n \in 0 .. L |-> Eq(v, n)]
  BY <1>9
<1>11. NeededBack = [n \in 0 .. L |-> Eq(NeededBack, n)]
  BY <1>10 DEF NeededBack, Eq, BackStep, a
<1>12. NeededBack[0] = a
  BY <1>1, <1>11 DEF Eq
<1>13. ASSUME NEW n \in 1 .. L  PROVE NeededBack[n] = BackStep(NeededBack[n - 1], n)
  <2>1. n \in 0 .. L /\ n # 0
    BY <1>1
  <2> QED  BY <1>11, <2>1 DEF Eq
<1> QED  BY <1>12, <1>13 DEF a

\* The objects that outputs need, and what needed gates read, are needed.
LEMMA NeededClosed ==
  ASSUME Shape
  PROVE  /\ \A n \in 1 .. Len(aig.outs) : aig.outs[n].id \in Needed
         /\ \A m \in 1 .. Len(aig.ands), j \in 1 .. 2 :
              GateId(m) \in Needed => aig.ands[m][j].id \in Needed
<1> DEFINE L == Len(aig.ands)
           v == NeededBack
           P(n) == /\ \A i \in 1 .. Len(aig.outs) : aig.outs[i].id \in v[n]
                   /\ \A m \in 1 .. L, j \in 1 .. 2 :
                        m > L - n /\ GateId(m) \in v[n] => aig.ands[m][j].id \in v[n]
           S == {n \in Nat : n <= L => P(n)}
<1>1. L \in Nat /\ NVars \in Nat /\ aig.outs \in Seq(Edge) /\ GatesOK(aig.ands)
  BY InputsCounted DEF Shape
<1>2. 0 \in S
  <2>1. \A i \in 1 .. Len(aig.outs) : aig.outs[i] \in ToSet(aig.outs)
    BY <1>1 DEF ToSet
  <2>2. \A i \in 1 .. Len(aig.outs) : aig.outs[i].id \in v[0]
    BY <2>1, NeededSteps
  <2>3. \A m \in 1 .. L : ~ (m > L - 0)
    BY <1>1
  <2> QED  BY <2>2, <2>3
<1>3. ASSUME NEW n \in Nat, n \in S  PROVE n + 1 \in S
  <2> SUFFICES ASSUME n + 1 <= L PROVE P(n + 1)
    OBVIOUS
  <2> DEFINE b == L - n
             x == aig.ands[b][1].id
             y == aig.ands[b][2].id
  <2>1. /\ P(n) /\ n + 1 \in 1 .. L /\ n + 1 - 1 = n /\ L + 1 - (n + 1) = b
        /\ b \in 1 .. L /\ L - (n + 1) = b - 1
    <3>1. n <= L /\ n + 1 \in 1 .. L /\ b \in 1 .. L
      BY <1>1
    <3>2. P(n)
      <4> HIDE DEF P
      <4> QED  BY <1>3, <3>1
    <3>3. n + 1 - 1 = n /\ L + 1 - (n + 1) = b /\ L - (n + 1) = b - 1
      <4>1. \A l \in Nat : /\ n + 1 - 1 = n
                          /\ l + 1 - (n + 1) = l - n /\ l - (n + 1) = l - n - 1
        OBVIOUS
      <4> QED  BY <1>1, <4>1
    <3> QED  BY <3>1, <3>2, <3>3
  <2>2. v[n + 1] = BackStep(v[n], n + 1)
    BY <2>1, NeededSteps
  <2>3. v[n + 1] = IF GateId(b) \in v[n] THEN v[n] \cup {x, y} ELSE v[n]
    BY <2>1, <2>2 DEF BackStep
  <2> HIDE DEF v, b
  <2>4. x < GateId(b) /\ y < GateId(b) /\ x \in Nat /\ y \in Nat
    <3>1. 1 \in 1 .. 2 /\ 2 \in 1 .. 2
      OBVIOUS
    <3>2. x < GateId(b) /\ y < GateId(b)
      BY <1>1, <2>1, <3>1 DEF GatesOK
    <3>3. aig.ands[b] \in Edge \X Edge
      BY <1>1, <2>1 DEF GatesOK
    <3> QED  BY <3>2, <3>3 DEF Edge
  <2> HIDE DEF x, y
  <2>5. ASSUME NEW m \in 1 .. L, NEW j \in 1 .. 2, m > b - 1, GateId(m) \in v[n + 1]
        PROVE  aig.ands[m][j].id \in v[n + 1]
    <3>1. GateId(m) # x /\ GateId(m) # y
      <4>1. GateId(b) <= GateId(m) /\ GateId(b) \in Nat /\ GateId(m) \in Nat
        BY <1>1, <2>1, <2>5 DEF GateId
      <4> QED  BY <2>4, <4>1
    <3>2. GateId(m) \in v[n]
      BY <2>3, <2>5, <3>1
    <3>3. CASE m > b
      <4>1. m > L - n
        BY <3>3 DEF b
      <4>2. aig.ands[m][j].id \in v[n]
        BY <2>1, <3>2, <4>1
      <4> QED  BY <2>3, <4>2
    <3>4. CASE m = b
      <4>1. v[n + 1] = v[n] \cup {x, y}
        BY <2>3, <3>2, <3>4
      <4>2. aig.ands[m][j].id = x \/ aig.ands[m][j].id = y
        BY <3>4 DEF x, y
      <4> QED  BY <4>1, <4>2
    <3> QED  BY <1>1, <2>1, <2>5, <3>3, <3>4
  <2>6. \A i \in 1 .. Len(aig.outs) : aig.outs[i].id \in v[n + 1]
    BY <2>1, <2>3
  <2> QED  BY <2>1, <2>5, <2>6
<1> HIDE DEF S
<1>4. \A n \in Nat : n \in S
  BY <1>2, <1>3, AllNumbers
<1>5. P(L)
  BY <1>1, <1>4 DEF S
<1>6. \A m \in 1 .. L : m > L - L
  BY <1>1
<1> QED  BY <1>5, <1>6 DEF Needed

\* The gates kept, up to some gate, are counted one by one.
LEMMA RankSteps ==
  ASSUME Shape
  PROVE  /\ Kept \subseteq 1 .. Len(aig.ands)
         /\ Rank(0) = 0
         /\ \A m \in Nat : /\ Rank(m) \in Nat
                           /\ Rank(m + 1) = IF m + 1 \in Kept THEN Rank(m) + 1 ELSE Rank(m)
         /\ Rank(Len(aig.ands)) = Cardinality(Kept) /\ Cardinality(Kept) \in Nat
<1> DEFINE L == Len(aig.ands)
           U(m) == {j \in Kept : j <= m}
<1>1. L \in Nat /\ Kept \subseteq 1 .. L
  BY DEF Shape, Kept
<1>2. \A j \in Kept : j \in Nat /\ j # 0 /\ j <= L
  <2>1. \A j \in 1 .. L : j \in Nat /\ j # 0 /\ j <= L
    BY <1>1
  <2> QED  BY <1>1, <2>1
<1> HIDE DEF L
<1>3. IsFiniteSet(1 .. L)
  BY <1>1, FS_Interval
<1>4. \A m \in Nat : IsFiniteSet(U(m)) /\ Cardinality(U(m)) \in Nat
  BY <1>1, <1>3, FS_Subset, FS_CardinalityType
<1>5. Rank(0) = 0
  <2>1. U(0) = {}
    BY <1>2
  <2> QED  BY <2>1, FS_EmptySet DEF Rank
<1>6. ASSUME NEW m \in Nat
      PROVE  Rank(m + 1) = IF m + 1 \in Kept THEN Rank(m) + 1 ELSE Rank(m)
  <2>1. CASE m + 1 \in Kept
    <3>1. U(m + 1) = U(m) \cup {m + 1} /\ m + 1 \notin U(m)
      BY <1>2, <2>1
    <3> HIDE DEF U
    <3>2. Cardinality(U(m + 1)) = Cardinality(U(m)) + 1
      BY <1>4, <3>1, FS_AddElement
    <3> QED  BY <2>1, <3>2 DEF Rank, U
  <2>2. CASE m + 1 \notin Kept
    <3>1. U(m + 1) = U(m)
      BY <1>2, <2>2
    <3> QED  BY <2>2, <3>1 DEF Rank
  <2> QED  BY <2>1, <2>2
<1>7. Rank(L) = Cardinality(Kept)
  <2>1. U(L) = Kept
    BY <1>2
  <2> QED  BY <2>1 DEF Rank
<1>8. Cardinality(Kept) \in Nat
  BY <1>1, <1>3, FS_Subset, FS_CardinalityType
<1>9. \A m \in Nat : Rank(m) \in Nat
  BY <1>4 DEF Rank
<1> QED  BY <1>1, <1>5, <1>6, <1>7, <1>8, <1>9 DEF L

\* A kept gate has a greater rank than all before it.
LEMMA RankGrows ==
  ASSUME Shape, NEW a \in Nat
  PROVE  \A b \in Nat : /\ a <= b => Rank(a) <= Rank(b)
                        /\ a < b /\ b \in Kept => Rank(a) < Rank(b)
<1> DEFINE S == {n \in Nat : Rank(a) <= Rank(a + n)}
<1>1. \A m \in Nat : /\ Rank(m) \in Nat
                     /\ Rank(m + 1) = IF m + 1 \in Kept THEN Rank(m) + 1 ELSE Rank(m)
  BY RankSteps
<1>2. 0 \in S
  BY <1>1
<1>3. ASSUME NEW n \in Nat, n \in S  PROVE n + 1 \in S
  <2>1. /\ a + n \in Nat /\ a + (n + 1) = a + n + 1 /\ Rank(a + n) \in Nat /\ Rank(a) \in Nat
        /\ Rank(a) <= Rank(a + n)
    BY <1>1, <1>3
  <2>2. Rank(a + n) <= Rank(a + n + 1) /\ Rank(a + n + 1) \in Nat
    BY <1>1, <2>1
  <2> QED  BY <2>1, <2>2
<1> HIDE DEF S
<1>4. \A n \in Nat : n \in S
  BY <1>2, <1>3, AllNumbers
<1>5. ASSUME NEW b \in Nat, a <= b  PROVE Rank(a) <= Rank(b)
  <2>1. b - a \in Nat /\ a + (b - a) = b
    BY <1>5
  <2>2. b - a \in S
    BY <1>4, <2>1
  <2> QED  BY <2>1, <2>2 DEF S
<1>6. ASSUME NEW b \in Nat, a < b, b \in Kept  PROVE Rank(a) < Rank(b)
  <2>1. b - 1 \in Nat /\ a <= b - 1 /\ b - 1 + 1 = b
    BY <1>6
  <2>2. Rank(a) <= Rank(b - 1)
    BY <1>5, <2>1
  <2>3. Rank(b) = Rank(b - 1) + 1 /\ Rank(b - 1) \in Nat /\ Rank(a) \in Nat
    BY <1>1, <1>6, <2>1
  <2> QED  BY <2>2, <2>3
<1> QED  BY <1>5, <1>6

\* The kept gates are numbered from 1 on, each by its rank.
LEMMA GateOfRank ==
  ASSUME Shape
  PROVE  /\ \A n \in 1 .. Cardinality(Kept) : Gate(n) \in Kept /\ Rank(Gate(n)) = n
         /\ \A m \in Kept : Rank(m) \in 1 .. Cardinality(Kept) /\ Gate(Rank(m)) = m
<1> DEFINE S == {m \in Nat : \A n \in 1 .. Rank(m) : \E j \in Kept : Rank(j) = n}
<1>1. /\ Kept \subseteq 1 .. Len(aig.ands) /\ Len(aig.ands) \in Nat /\ Rank(0) = 0
      /\ Rank(Len(aig.ands)) = Cardinality(Kept) /\ Cardinality(Kept) \in Nat
      /\ \A m \in Nat : /\ Rank(m) \in Nat
                        /\ Rank(m + 1) = IF m + 1 \in Kept THEN Rank(m) + 1 ELSE Rank(m)
  <2>1. Len(aig.ands) \in Nat
    BY DEF Shape
  <2> QED  BY <2>1, RankSteps
<1>2. 0 \in S
  BY <1>1
<1>3. ASSUME NEW m \in Nat, m \in S  PROVE m + 1 \in S
  <2>1. CASE m + 1 \in Kept
    <3>1. Rank(m + 1) = Rank(m) + 1 /\ Rank(m) \in Nat
      BY <1>1, <2>1
    <3>2. \A n \in 1 .. Rank(m + 1) : n \in 1 .. Rank(m) \/ n = Rank(m + 1)
      BY <3>1
    <3> QED  BY <1>3, <2>1, <3>2
  <2>2. CASE m + 1 \notin Kept
    <3>1. Rank(m + 1) = Rank(m)
      BY <1>1, <2>2
    <3> QED  BY <1>3, <3>1
  <2> QED  BY <2>1, <2>2
<1> HIDE DEF S
<1>4. \A m \in Nat : m \in S
  BY <1>2, <1>3, AllNumbers
<1>5. \A n \in 1 .. Cardinality(Kept) : \E j \in Kept : Rank(j) = n
  BY <1>1, <1>4 DEF S
<1>6. \A n \in 1 .. Cardinality(Kept) : Gate(n) \in Kept /\ Rank(Gate(n)) = n
  BY <1>5 DEF Gate
<1>7. ASSUME NEW m \in Kept
      PROVE  Rank(m) \in 1 .. Cardinality(Kept) /\ Gate(Rank(m)) = m
  <2>1. m \in Nat /\ m <= Len(aig.ands) /\ 0 < m
    BY <1>1
  <2>2. Rank(m) <= Rank(Len(aig.ands)) /\ Rank(0) < Rank(m)
    BY <1>1, <2>1, RankGrows
  <2>3. Rank(m) \in 1 .. Cardinality(Kept)
    BY <1>1, <2>1, <2>2
  <2> DEFINE j == Gate(Rank(m))
  <2>4. j \in Kept /\ Rank(j) = Rank(m)
    BY <1>6, <2>3
  <2> HIDE DEF j
  <2>5. j \in Nat /\ Rank(j) \in Nat
    BY <1>1, <2>4
  <2>6. ~ (j < m) /\ ~ (m < j)
    BY <2>1, <2>4, <2>5, RankGrows
  <2>7. j = m
    BY <2>1, <2>5, <2>6
  <2> QED  BY <2>3, <2>7 DEF j
<1> QED  BY <1>6, <1>7

\* The gates of the graph, and those that stay, are so many.
LEMMA GatesCounted ==
  ASSUME Shape
  PROVE  /\ NVars \in Nat /\ Len(aig.ands) \in Nat /\ Cardinality(Kept) \in Nat
         /\ GateId(Len(aig.ands)) = NVars + Len(aig.ands)
         /\ GateId(Cardinality(Kept)) = NVars + Cardinality(Kept)
<1>1. Len(aig.ands) \in Nat
  BY DEF Shape
<1>2. Cardinality(Kept) \in Nat
  BY RankSteps
<1> QED  BY <1>1, <1>2, InputsCounted DEF GateId

\* Where an object goes, and the gates that are left.
Place(id) == IF id <= NVars THEN id ELSE GateId(Rank(GateOf(id)))

CleanedAnds ==
  [n \in 1 .. Cardinality(Kept) |-> <<Renumbered(aig.ands[Gate(n)][1]),
                                      Renumbered(aig.ands[Gate(n)][2])>>]

\* Objects that are needed keep their order.
LEMMA PlaceInOrder ==
  ASSUME Shape, NEW id \in Nat, id <= GateId(Len(aig.ands)), id \in Needed
  PROVE  /\ Place(id) \in 0 .. GateId(Cardinality(Kept))
         /\ \A m \in Kept : id < GateId(m) => Place(id) < GateId(Rank(m))
<1>1. /\ NVars \in Nat /\ Len(aig.ands) \in Nat /\ Cardinality(Kept) \in Nat
      /\ \A m \in Kept : Rank(m) \in 1 .. Cardinality(Kept) /\ m \in Nat
  <2>1. Kept \subseteq 1 .. Len(aig.ands) /\ Len(aig.ands) \in Nat
    BY RankSteps, GatesCounted
  <2>2. \A m \in 1 .. Len(aig.ands) : m \in Nat
    BY <2>1
  <2> QED  BY <2>1, <2>2, InputsCounted, RankSteps, GateOfRank
<1>2. CASE id <= NVars
  <2>1. Place(id) = id
    BY <1>2 DEF Place
  <2> QED  BY <1>1, <1>2, <2>1 DEF GateId
<1>3. CASE ~ (id <= NVars)
  <2> DEFINE j == GateOf(id)
  <2>1. Place(id) = GateId(Rank(j))
    BY <1>3 DEF Place
  <2>2. j \in 1 .. Len(aig.ands) /\ GateId(j) = id
    BY <1>1, <1>3 DEF GateOf, GateId
  <2>3. j \in Kept
    BY <2>2 DEF Kept, Shape
  <2> HIDE DEF j
  <2>4. Rank(j) \in 1 .. Cardinality(Kept) /\ j \in Nat
    BY <1>1, <2>3
  <2>5. ASSUME NEW m \in Kept, id < GateId(m)
        PROVE  Rank(j) < Rank(m)
    <3>1. j < m
      BY <1>1, <2>2, <2>4, <2>5 DEF GateId
    <3> QED  BY <1>1, <2>4, <3>1, RankGrows
  <2>6. Place(id) \in 0 .. GateId(Cardinality(Kept))
    BY <1>1, <2>1, <2>4 DEF GateId
  <2>7. ASSUME NEW m \in Kept, id < GateId(m)
        PROVE  Place(id) < GateId(Rank(m))
    BY <1>1, <2>1, <2>4, <2>5, <2>7 DEF GateId
  <2> QED  BY <2>6, <2>7
<1> QED  BY <1>2, <1>3

\* What a kept gate reads is needed, and comes before it.
LEMMA KeptReads ==
  ASSUME Shape, NEW m \in Kept, NEW j \in 1 .. 2
  PROVE  /\ aig.ands[m][j] \in Edge /\ aig.ands[m][j].id \in Nat
         /\ aig.ands[m][j].id < GateId(m) /\ aig.ands[m][j].id <= GateId(Len(aig.ands))
         /\ aig.ands[m][j].id \in Needed
<1>1. /\ m \in 1 .. Len(aig.ands) /\ GateId(m) \in Needed /\ Len(aig.ands) \in Nat
      /\ NVars \in Nat
  BY InputsCounted DEF Kept, Shape
<1>2. aig.ands[m] \in Edge \X Edge
  BY <1>1 DEF Shape
<1>3. aig.ands[m][j] \in Edge
  BY <1>2
<1>4. aig.ands[m][j].id \in Nat
  BY <1>3 DEF Edge
<1>5. aig.ands[m][j].id < GateId(m)
  BY <1>1 DEF Shape, GatesOK
<1>6. GateId(m) <= GateId(Len(aig.ands)) /\ GateId(m) \in Nat /\ GateId(Len(aig.ands)) \in Nat
  BY <1>1 DEF GateId
<1>7. aig.ands[m][j].id \in Needed
  BY <1>1, NeededClosed
<1> QED  BY <1>3, <1>4, <1>5, <1>6, <1>7

\* An edge goes with its object.
LEMMA RenumberedIs ==
  ASSUME NEW e
  PROVE  Renumbered(e) = [id |-> Place(e.id), cmpl |-> e.cmpl]
  BY DEF Renumbered, To, Place

\* What is left is a list of gates.
LEMMA CleanedOK ==
  ASSUME Shape
  PROVE  GatesOK(CleanedAnds) /\ Len(CleanedAnds) = Cardinality(Kept)
<1>1. /\ Cardinality(Kept) \in Nat
      /\ \A n \in 1 .. Cardinality(Kept) : Gate(n) \in Kept /\ Rank(Gate(n)) = n
  BY RankSteps, GateOfRank
<1>2. ASSUME NEW n \in 1 .. Cardinality(Kept), NEW j \in 1 .. 2
      PROVE  /\ Renumbered(aig.ands[Gate(n)][j]) \in Edge
             /\ Renumbered(aig.ands[Gate(n)][j]).id < GateId(n)
  <2> DEFINE e == aig.ands[Gate(n)][j]
  <2>1. /\ e \in Edge /\ e.id \in Nat /\ e.id < GateId(Gate(n))
        /\ e.id <= GateId(Len(aig.ands)) /\ e.id \in Needed
    BY <1>1, KeptReads
  <2> HIDE DEF e
  <2>2. Place(e.id) < GateId(n) /\ Place(e.id) \in Nat
    BY <1>1, <2>1, PlaceInOrder
  <2>3. e.cmpl \in BOOLEAN
    BY <2>1 DEF Edge
  <2>4. Renumbered(e) \in Edge /\ Renumbered(e).id < GateId(n)
    BY <2>2, <2>3, RenumberedIs DEF Edge
  <2> QED  BY <2>4 DEF e
<1>3. Len(CleanedAnds) = Cardinality(Kept) /\ DOMAIN CleanedAnds = 1 .. Cardinality(Kept)
  BY <1>1 DEF CleanedAnds
<1>4. \A n \in 1 .. Cardinality(Kept) : CleanedAnds[n] \in Edge \X Edge
  <2> TAKE n \in 1 .. Cardinality(Kept)
  <2>1. 1 \in 1 .. 2 /\ 2 \in 1 .. 2
    OBVIOUS
  <2> QED  BY <1>2, <2>1 DEF CleanedAnds
<1>5. CleanedAnds \in Seq(Edge \X Edge)
  BY <1>1, <1>4 DEF CleanedAnds
<1>6. \A n \in 1 .. Len(CleanedAnds), j \in 1 .. 2 : CleanedAnds[n][j].id < GateId(n)
  <2> TAKE n \in 1 .. Len(CleanedAnds), j \in 1 .. 2
  <2>1. n \in 1 .. Cardinality(Kept)
    BY <1>3
  <2>2. CleanedAnds[n][j] = Renumbered(aig.ands[Gate(n)][j])
    BY <2>1 DEF CleanedAnds
  <2> QED  BY <1>2, <2>1, <2>2
<1> QED  BY <1>3, <1>5, <1>6 DEF GatesOK

\* A needed object has its function also where it has gone.
LEMMA FunctionsMoved ==
  ASSUME Shape
  PROVE  \A id \in 0 .. GateId(Len(aig.ands)) :
           id \in Needed => ObjectFunctions(CleanedAnds)[Place(id)]
                              = ObjectFunctions(aig.ands)[id]
<1> DEFINE u == ObjectFunctions(aig.ands)
           v == ObjectFunctions(CleanedAnds)
           L == GateId(Len(aig.ands))
           S == {n \in Nat : n <= L => \A i \in 0 .. n : i \in Needed => v[Place(i)] = u[i]}
<1>1. /\ Len(aig.ands) \in Nat /\ NVars \in Nat /\ L \in Nat /\ L = NVars + Len(aig.ands)
      /\ GatesOK(aig.ands) /\ GatesOK(CleanedAnds)
      /\ Len(CleanedAnds) = Cardinality(Kept) /\ Cardinality(Kept) \in Nat
  <2>1. GatesOK(aig.ands)
    BY DEF Shape
  <2> QED  BY <2>1, GatesCounted, CleanedOK
<1>2. Solves(u, aig.ands, Len(aig.ands)) /\ Solves(v, CleanedAnds, Cardinality(Kept))
  BY <1>1, FunctionsSolve
<1>3. ASSUME NEW n \in Nat, n <= L, n \in Needed,
             \A i \in 0 .. n - 1 : i \in Needed => v[Place(i)] = u[i]
      PROVE  v[Place(n)] = u[n]
  <2>1. Place(n) \in 0 .. GateId(Cardinality(Kept)) /\ n \in 0 .. L
    BY <1>1, <1>3, PlaceInOrder
  <2>2. u[n] = ValueIn(u, aig.ands, n) /\ v[Place(n)] = ValueIn(v, CleanedAnds, Place(n))
    BY <1>2, <2>1 DEF Solves
  <2>3. CASE n <= NVars
    BY <2>2, <2>3 DEF Place, ValueIn
  <2>4. CASE ~ (n <= NVars)
    <3> DEFINE m == GateOf(n)
               q == Rank(m)
               g == aig.ands[m]
    <3>1. m \in 1 .. Len(aig.ands) /\ GateId(m) = n
      BY <1>1, <1>3, <2>4 DEF GateOf, GateId
    <3>2. m \in Kept
      BY <1>1, <1>3, <3>1 DEF Kept, GatesOK
    <3>3. Place(n) = GateId(q)
      BY <2>4 DEF Place
    <3> HIDE DEF m
    <3>4. q \in 1 .. Cardinality(Kept) /\ Gate(q) = m
      BY <3>2, GateOfRank
    <3>5. CleanedAnds[q] = <<Renumbered(g[1]), Renumbered(g[2])>>
      BY <3>4 DEF CleanedAnds
    <3> HIDE DEF q
    <3>6. ~ (GateId(q) <= NVars) /\ GateOf(GateId(q)) = q
      BY <1>1, <3>4 DEF GateId, GateOf
    <3>7. v[Place(n)] = GateFunction(v, CleanedAnds[q])
      BY <2>2, <3>3, <3>6 DEF ValueIn
    <3>8. u[n] = GateFunction(u, g)
      BY <2>2, <2>4 DEF ValueIn, m
    <3>9. ASSUME NEW j \in 1 .. 2
          PROVE  EdgeFunction(v, Renumbered(g[j])) = EdgeFunction(u, g[j])
      <4>1. g[j].id \in Nat /\ g[j].id < n /\ g[j].id \in Needed
        BY <3>1, <3>2, KeptReads
      <4>2. g[j].id \in 0 .. n - 1
        BY <4>1
      <4>3. v[Place(g[j].id)] = u[g[j].id]
        BY <1>3, <4>1, <4>2
      <4>4. Renumbered(g[j]).id = Place(g[j].id) /\ Renumbered(g[j]).cmpl = g[j].cmpl
        BY RenumberedIs
      <4> HIDE DEF u, v, g
      <4> QED  BY <4>3, <4>4 DEF EdgeFunction
    <3>10. 1 \in 1 .. 2 /\ 2 \in 1 .. 2
      OBVIOUS
    <3> HIDE DEF u, v, g
    <3> QED  BY <3>5, <3>7, <3>8, <3>9, <3>10 DEF GateFunction
  <2> QED  BY <2>3, <2>4
<1> HIDE DEF u, v, L
<1>4. 0 \in S
  <2>1. 0 \in Needed => v[Place(0)] = u[0]
    BY <1>1, <1>3
  <2> QED  BY <2>1
<1>5. ASSUME NEW n \in Nat, n \in S  PROVE n + 1 \in S
  <2> SUFFICES ASSUME n + 1 <= L
               PROVE  \A i \in 0 .. n + 1 : i \in Needed => v[Place(i)] = u[i]
    OBVIOUS
  <2>1. \A i \in 0 .. n : i \in Needed => v[Place(i)] = u[i]
    BY <1>1, <1>5
  <2>2. n + 1 - 1 = n /\ \A i \in 0 .. n + 1 : i \in 0 .. n \/ i = n + 1
    OBVIOUS
  <2>3. n + 1 \in Needed => v[Place(n + 1)] = u[n + 1]
    BY <1>3, <2>1, <2>2
  <2> QED  BY <2>1, <2>2, <2>3
<1> HIDE DEF S
<1>6. \A n \in Nat : n \in S
  BY <1>4, <1>5, AllNumbers
<1> QED  BY <1>1, <1>6 DEF S, u, v, L

\* What cleanup keeps has the functions it had.
LEMMA NextCleanup == IInv /\ Cleanup => IInv'
<1> SUFFICES ASSUME IInv, Cleanup PROVE IInv'
  OBVIOUS
<1> DEFINE outs == [n \in DOMAIN aig.outs |-> Renumbered(aig.outs[n])]
<1>1. Shape /\ aig.outs \in Seq(Edge) /\ Len(aig.outs) \in Nat
  BY DEF IInv, Shape
<1>2. aig' = [ands |-> CleanedAnds, outs |-> outs] /\ pc' = "done" /\ cover' = cover
  BY DEF Cleanup, CleanedAnds
<1>3. aig'.ands = CleanedAnds /\ aig'.outs = outs
  BY <1>2
<1>4. GatesOK(CleanedAnds) /\ Len(CleanedAnds) = Cardinality(Kept)
  BY <1>1, CleanedOK
<1>5. ASSUME NEW n \in 1 .. Len(aig.outs)
      PROVE  /\ outs[n] = Renumbered(aig.outs[n])
             /\ outs[n] \in EdgesOf(CleanedAnds)
             /\ FunctionAt(CleanedAnds, outs[n]) = FunctionAt(aig.ands, aig.outs[n])
  <2> DEFINE e == aig.outs[n]
  <2>1. outs[n] = Renumbered(e)
    BY <1>1
  <2>2. /\ e \in Edge /\ e.id \in Nat /\ e.cmpl \in BOOLEAN /\ e.id \in Needed
        /\ e.id <= GateId(Len(aig.ands)) /\ e.id \in 0 .. GateId(Len(aig.ands))
    <3>1. e \in EdgesOf(aig.ands) /\ e.id \in Needed
      BY <1>1, NeededClosed DEF Shape
    <3>2. e \in Edge /\ e.id \in Nat /\ e.cmpl \in BOOLEAN /\ e.id <= GateId(Len(aig.ands))
      BY <3>1 DEF EdgesOf, Edge
    <3>3. GateId(Len(aig.ands)) \in Nat
      BY <1>1, InputsCounted DEF Shape, GateId
    <3> QED  BY <3>1, <3>2, <3>3
  <2> HIDE DEF e
  <2>3. Place(e.id) \in Nat /\ Place(e.id) <= GateId(Len(CleanedAnds))
    <3>1. Place(e.id) \in 0 .. GateId(Cardinality(Kept)) /\ GateId(Cardinality(Kept)) \in Nat
      BY <1>1, <2>2, PlaceInOrder, GatesCounted
    <3> QED  BY <1>4, <3>1
  <2>4. Renumbered(e).id = Place(e.id) /\ Renumbered(e).cmpl = e.cmpl /\ Renumbered(e) \in Edge
    BY <2>2, <2>3, RenumberedIs DEF Edge
  <2>5. Renumbered(e) \in EdgesOf(CleanedAnds)
    BY <2>3, <2>4 DEF EdgesOf
  <2>6. ObjectFunctions(CleanedAnds)[Place(e.id)] = ObjectFunctions(aig.ands)[e.id]
    BY <1>1, <2>2, FunctionsMoved
  <2>7. FunctionAt(CleanedAnds, Renumbered(e)) = FunctionAt(aig.ands, e)
    BY <2>4, <2>6 DEF FunctionAt, EdgeFunction
  <2> QED  BY <2>1, <2>5, <2>7 DEF e
<1>6. outs \in Seq(Edge) /\ Len(outs) = Len(aig.outs)
  <2>1. \A n \in 1 .. Len(aig.outs) : outs[n] \in Edge
    BY <1>5 DEF EdgesOf
  <2>2. DOMAIN aig.outs = 1 .. Len(aig.outs)
    BY <1>1
  <2>3. outs = [n \in 1 .. Len(aig.outs) |-> outs[n]]
    BY <2>2
  <2> HIDE DEF outs
  <2> QED  BY <1>1, <2>1, <2>3
<1> HIDE DEF outs
<1>7. Shape'
  BY <1>2, <1>3, <1>4, <1>5, <1>6 DEF IInv, Shape, GatesOK
<1>8. OutputsMade'
  BY <1>2, <1>3, <1>5, <1>6 DEF IInv, OutputsMade
<1> QED  BY <1>2, <1>7, <1>8 DEF IInv, SumSoFar, ProductSoFar

\* Every step keeps the invariant.
LEMMA NextIInv == IInv /\ [Next]_vars => IInv'
<1>1. IInv /\ UNCHANGED vars => IInv'
  BY DEF vars, IInv, Shape, OutputsMade, SumSoFar, ProductSoFar, esop
<1> QED
  BY <1>1, NextEmptyOutput, NextStartOutput, NextStartCube, NextAddLiteral,
     NextSkipLiteral, NextAddCube, NextEndOutput, NextCleanup DEF Next, Terminated

\* The inductive invariant holds in every state.
THEOREM Invariant == Spec => []IInv
  BY InitIInv, NextIInv, PTL DEF Spec

\* The graph is one at any time, and its edges carry what they should: the
\* finished outputs, before and after the graph is cleaned up, the product of the
\* literals added, and the sum of the cubes added.
THEOREM GraphCorrect == Spec => []GraphComputes
<1>1. IInv => GraphComputes
  <2> SUFFICES ASSUME IInv PROVE GraphComputes
    OBVIOUS
  <2> DEFINE val == ObjectFunctions(aig.ands)
  <2>1. IsAig(aig) /\ Len(aig.outs) <= Len(cover)
    BY DEF IInv, Shape, GatesOK, EdgesOf, IsAig, LastId
  <2>2. \A n \in DOMAIN aig.outs :
          EdgeFunction(val, aig.outs[n]) = EsopOfSeq(cover[n], DOMAIN cover[n])
    <3>1. DOMAIN aig.outs = 1 .. Len(aig.outs)
      BY DEF IInv, Shape
    <3> QED  BY <3>1 DEF IInv, OutputsMade, FunctionAt, FunctionOf
  <2>3. pc \in {"cube", "literal"} => EdgeFunction(val, root_idx) = EsopOfSeq(esop, 1 .. c - 1)
    BY DEF IInv, SumSoFar, FunctionAt
  <2>4. pc = "literal" =>
          EdgeFunction(val, and_idx) = OnSet(Cube(esop[c].mask \cap (0 .. k - 1), esop[c].polarity))
    BY DEF IInv, ProductSoFar, FunctionAt, Before
  <2> QED  BY <2>1, <2>2, <2>3, <2>4 DEF GraphComputes
<1> QED  BY <1>1, Invariant, PTL

\* An output that has been made keeps its function through all the gates that
\* are made after it, and through the cleaning up.
THEOREM OutputsStay ==
  Spec => [][\A n \in 1 .. Len(aig.outs) :
               /\ n \in 1 .. Len(aig'.outs)
               /\ FunctionAt(aig'.ands, aig'.outs[n]) = FunctionAt(aig.ands, aig.outs[n])]_vars
<1> DEFINE Stay == \A n \in 1 .. Len(aig.outs) :
                     /\ n \in 1 .. Len(aig'.outs)
                     /\ FunctionAt(aig'.ands, aig'.outs[n]) = FunctionAt(aig.ands, aig.outs[n])
<1>1. IInv /\ IInv' /\ [Next]_vars => Stay
  <2> SUFFICES ASSUME IInv, IInv', [Next]_vars PROVE Stay
    OBVIOUS
  <2>1. cover' = cover
    BY DEF Next, EmptyOutput, StartOutput, StartCube, AddLiteral, SkipLiteral, AddCube,
           EndOutput, Cleanup, Terminated, vars
  <2>2. aig.outs \in Seq(Edge) /\ aig'.outs \in Seq(Edge)
    BY DEF IInv, Shape
  <2>3. Len(aig'.outs) \in {Len(aig.outs), Len(aig.outs) + 1}
    <3>1. aig'.outs = aig.outs \/ Len(aig'.outs) = Len(aig.outs) + 1
            \/ aig'.outs = [n \in DOMAIN aig.outs |-> Renumbered(aig.outs[n])]
      <4>1. CASE EmptyOutput
        BY <2>2, <4>1 DEF EmptyOutput, IInv, Shape
      <4>2. CASE EndOutput
        BY <2>2, <4>2 DEF EndOutput, IInv, Shape
      <4>3. CASE AddLiteral \/ AddCube
        BY <4>3 DEF AddLiteral, AddCube, IInv, Shape
      <4>4. CASE Cleanup
        BY <4>4 DEF Cleanup
      <4>5. CASE UNCHANGED aig
        BY <4>5
      <4>6. StartOutput \/ StartCube \/ SkipLiteral \/ Terminated \/ UNCHANGED vars
              => UNCHANGED aig
        BY DEF StartOutput, StartCube, SkipLiteral, Terminated, vars
      <4> QED  BY <4>1, <4>2, <4>3, <4>4, <4>5, <4>6 DEF Next
    <3> QED  BY <2>2, <3>1
  <2>4. \A n \in 1 .. Len(aig.outs) : n \in 1 .. Len(aig'.outs)
    BY <2>2, <2>3
  <2>5. \A n \in 1 .. Len(aig.outs) :
          FunctionAt(aig.ands, aig.outs[n]) = FunctionOf(cover[n])
    BY DEF IInv, OutputsMade
  <2>6. \A n \in 1 .. Len(aig'.outs) :
          FunctionAt(aig'.ands, aig'.outs[n]) = FunctionOf(cover[n])
    BY <2>1 DEF IInv, OutputsMade
  <2> QED  BY <2>4, <2>5, <2>6
<1> QED  BY <1>1, Invariant, PTL DEF Spec
=============================================================================
