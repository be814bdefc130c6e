------------------------------ MODULE EsopToAig ------------------------------
(***************************************************************************)
(* esop_to_aig (source/xforms/esop_to_aig.cpp): a graph is built from a    *)
(* cover, literal by literal and cube by cube.                             *)
(***************************************************************************)
EXTENDS Aig, SequencesExt

CONSTANT Esops    \* the lists of lists of cubes, one per output, to be given

ASSUME EsopsAssumption == Esops \subseteq Seq(Seq(Cubes))

VARIABLES
  pc,
  cover,
  aig,       \* the graph built so far
  c, k,      \* the cube and the input under way
  and_idx,   \* the edge with the product of the literals of the cube so far
  root_idx   \* the edge with the sum of the cubes so far

vars == <<pc, cover, aig, c, k, and_idx, root_idx>>

-----------------------------------------------------------------------------
(* Gia_ManHashAnd and Gia_ManHashXor: a gate is made only if the result is  *)
(* no constant, no operand and no gate there is.                           *)

To(id, cmpl)  == [id |-> id, cmpl |-> cmpl]
Const0        == To(0, FALSE)
Const1        == To(0, TRUE)
Not(e)        == To(e.id, ~ e.cmpl)
Made(ands, e) == [ands |-> ands, edge |-> e]

HashAnd(ands, a, b) ==
  LET same == {m \in DOMAIN ands : {ands[m][1], ands[m][2]} = {a, b}}
  IN  IF Const0 \in {a, b} \/ a = Not(b) THEN Made(ands, Const0)
      ELSE IF a = Const1                  THEN Made(ands, b)
      ELSE IF b \in {a, Const1}           THEN Made(ands, a)
      ELSE IF same # {}                   THEN Made(ands, To(GateId(Max(same)), FALSE))
      ELSE Made(Append(ands, <<a, b>>), To(GateId(Len(ands) + 1), FALSE))

HashXor(ands, a, b) ==
  LET left  == HashAnd(ands, a, Not(b))
      right == HashAnd(left.ands, Not(a), b)
      both  == HashAnd(right.ands, Not(left.edge), Not(right.edge))
  IN  Made(both.ands, Not(both.edge))

-----------------------------------------------------------------------------
(* The loops over outputs, cubes and inputs. *)

esop == cover[Len(aig.outs) + 1]
Building(what) == pc = what /\ Len(aig.outs) < Len(cover)

EmptyOutput ==
  /\ Building("output") /\ esop = <<>>
  /\ aig' = [aig EXCEPT !.outs = Append(@, Const0)]
  /\ UNCHANGED <<pc, cover, c, k, and_idx, root_idx>>

StartOutput ==
  /\ Building("output") /\ esop # <<>>
  /\ root_idx' = Const0 /\ c' = 1
  /\ pc' = "cube"
  /\ UNCHANGED <<cover, aig, k, and_idx>>

\* The literals of cube32_one are not looked for.
StartCube ==
  /\ Building("cube") /\ c <= Len(esop)
  /\ and_idx' = Const1
  /\ k' = IF esop[c] = cube32_one THEN NVars ELSE 0
  /\ pc' = "literal"
  /\ UNCHANGED <<cover, aig, c, root_idx>>

\* Mutant of Lit: the number of an input is taken for that of its object.
LitUnshifted(v) == To(v, v \notin esop[c].polarity)

\* The literal of an input, whose object comes behind the constant.
Lit(v) == To(v + 1, v \notin esop[c].polarity)

AddLiteral ==
  /\ Building("literal") /\ k < NVars /\ k \in esop[c].mask
  /\ LET h == HashAnd(aig.ands, and_idx, Lit(k)) IN
       and_idx' = h.edge /\ aig' = [aig EXCEPT !.ands = h.ands]
  /\ k' = k + 1
  /\ UNCHANGED <<pc, cover, c, root_idx>>

SkipLiteral ==
  /\ Building("literal") /\ k < NVars /\ k \notin esop[c].mask
  /\ k' = k + 1
  /\ UNCHANGED <<pc, cover, aig, c, and_idx, root_idx>>

AddCube ==
  /\ Building("literal") /\ k = NVars
  /\ LET h == HashXor(aig.ands, root_idx, and_idx) IN
       root_idx' = h.edge /\ aig' = [aig EXCEPT !.ands = h.ands]
  /\ c' = c + 1
  /\ pc' = "cube"
  /\ UNCHANGED <<cover, k, and_idx>>

EndOutput ==
  /\ Building("cube") /\ c > Len(esop)
  /\ aig' = [aig EXCEPT !.outs = Append(@, root_idx)]
  /\ pc' = "output"
  /\ UNCHANGED <<cover, c, k, and_idx, root_idx>>

-----------------------------------------------------------------------------
(* Gia_ManCleanup: gates that no output depends on are taken out. *)

\* The objects found needed by the last n gates, taken from the last one back.
NeededBack ==
  LET ids[n \in 0 .. Len(aig.ands)] ==
        IF n = 0
          THEN {e.id : e \in ToSet(aig.outs)}
          ELSE LET m == Len(aig.ands) + 1 - n
               IN  IF GateId(m) \in ids[n - 1]
                     THEN ids[n - 1] \cup {aig.ands[m][1].id, aig.ands[m][2].id}
                     ELSE ids[n - 1]
  IN  ids

Needed == NeededBack[Len(aig.ands)]

\* The gates that stay keep their order.
Kept    == {m \in DOMAIN aig.ands : GateId(m) \in Needed}
Rank(m) == Cardinality({j \in Kept : j <= m})
Gate(n) == CHOOSE m \in Kept : Rank(m) = n

Renumbered(e) ==
  To(IF e.id <= NVars THEN e.id ELSE GateId(Rank(GateOf(e.id))), e.cmpl)

Cleanup ==
  /\ pc = "output" /\ Len(aig.outs) = Len(cover)
  /\ aig' = [ands |-> [n \in 1 .. Cardinality(Kept) |->
                         <<Renumbered(aig.ands[Gate(n)][1]),
                           Renumbered(aig.ands[Gate(n)][2])>>],
             outs |-> [n \in DOMAIN aig.outs |-> Renumbered(aig.outs[n])]]
  /\ pc' = "done"
  /\ UNCHANGED <<cover, c, k, and_idx, root_idx>>

Terminated == pc = "done" /\ UNCHANGED vars

-----------------------------------------------------------------------------
Init ==
  /\ pc = "output"
  /\ cover \in Esops
  /\ aig = [ands |-> <<>>, outs |-> <<>>]
  /\ c = 1 /\ k = 0 /\ and_idx = Const1 /\ root_idx = Const0

Next == \/ EmptyOutput \/ StartOutput \/ StartCube \/ AddLiteral \/ SkipLiteral
        \/ AddCube \/ EndOutput \/ Cleanup \/ Terminated

Spec == Init /\ [][Next]_vars

-----------------------------------------------------------------------------
(* Properties *)

\* The function of every object of a graph with some gates.
ObjectFunctions(ands) ==
  LET val[id \in 0 .. GateId(Len(ands))] ==
        IF id <= NVars THEN InputFunction(id) ELSE GateFunction(val, ands[GateOf(id)])
  IN  val

\* The graph is one, gates after what they read, as many outputs as made; and
\* these have the functions of their cubes, also when gates are shared between
\* cubes and outputs and when the graph has been cleaned up; and_idx and
\* root_idx are the product and the sum so far.
GraphComputes ==
  LET val == ObjectFunctions(aig.ands) IN
      /\ IsAig(aig) /\ Len(aig.outs) <= Len(cover)
      /\ \A n \in DOMAIN aig.outs :
           EdgeFunction(val, aig.outs[n]) = EsopOfSeq(cover[n], DOMAIN cover[n])
      /\ pc \in {"cube", "literal"} => EdgeFunction(val, root_idx) = EsopOfSeq(esop, 1 .. c - 1)
      /\ pc = "literal" =>
           EdgeFunction(val, and_idx) =
             OnSet(Cube(esop[c].mask \cap (0 .. k - 1), esop[c].polarity))
=============================================================================
