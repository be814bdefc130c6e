-------------------------- MODULE AigCollapseInv --------------------------
(***************************************************************************)
(* The properties of the collapser of module AigCollapse.                  *)
(***************************************************************************)
EXTENDS AigCollapse

\* Type correctness: the collapser never makes a cube that is not a cube over
\* the inputs, and never reads an ESOP outside its bounds.
TypeOK ==
  /\ pc \in {"node", "and", "add_cube", "done"}
  /\ IsAig(aig)
  /\ id \in GateId(1) .. LastId(aig) + 1
  /\ m_esops \in [Ids(aig) -> Seq(Cubes)]
  /\ m_esop0 \in Seq(Cubes) /\ m_esop1 \in Seq(Cubes)
  /\ m_curr_esop \subseteq Cubes
  /\ i0 \in Nat \ {0} /\ i1 \in Nat \ {0}
  /\ cube0 \in Cubes
  /\ ret \in Seq(Seq(Cubes))

\* The loops of compute_and read m_esop0 and m_esop1 within their bounds.
WithinBounds ==
  pc \in {"and", "add_cube"} => /\ id <= LastId(aig)
                                /\ i0 <= Len(m_esop0) + 1
                                /\ i1 <= Len(m_esop1)

\* The function of what add_cube has in hand.
InHand == IF pc = "add_cube" THEN OnSet(cube0) ELSE {}

\* The function of the pairs of cubes of s and t taken before the pair i, k: the
\* cubes of s before i have met all of t, cube i those before k.
Pairs(s, t, i, k) ==
  SymDiff(EsopOfSeq(s, 1 .. i - 1) \cap FunctionOf(t),
          IF i <= Len(s) THEN OnSet(s[i]) \cap EsopOfSeq(t, 1 .. k - 1) ELSE {})

Multiplied == Pairs(m_esop0, m_esop1, i0, i1)

\* compute_and and add_cube: whatever has been merged and cancelled, the cubes
\* multiplied so far have the function of the pairs taken so far.
ProductKept ==
  pc \in {"and", "add_cube"} =>
    SymDiff(EsopOf(m_curr_esop), InHand) = Multiplied

\* m_curr_esop starts empty for every gate.
FreshForGate == pc = "node" => m_curr_esop = {}

-----------------------------------------------------------------------------
(* Gates and outputs. *)

Eval == INSTANCE AigEval WITH
  graph   <- aig,
  next    <- id,
  val     <- [k \in 0 .. id - 1 |-> FunctionOf(m_esops[k])],
  results <- [k \in 1 .. Len(ret) |-> FunctionOf(ret[k])]

\* Every gate and every output gets an ESOP of its function, in order, and an
\* ESOP once computed never changes.
Implements == Eval!Spec

\* The value of object k at a point, straight from the graph.
ValueAt(x) ==
  LET val[k \in Ids(aig)] ==
        IF k <= NVars
          THEN x \in InputFunction(k)
          ELSE LET g == aig.ands[GateOf(k)]
               IN  /\ val[g[1].id] # g[1].cmpl
                   /\ val[g[2].id] # g[2].cmpl
  IN  val

\* What the collapser returns are the functions of the outputs of the graph,
\* for every graph of up to Width inputs (source/kernel/cube32.hpp:19).
OutputsComputed ==
  pc = "done" =>
    /\ Len(ret) = Len(aig.outs)
    /\ \A k \in 1 .. Len(ret) : \A x \in Points :
         LET o == aig.outs[k]
         IN  x \in FunctionOf(ret[k]) <=> ValueAt(x)[o.id] # o.cmpl

-----------------------------------------------------------------------------
\* Between two calls of add_cube no two cubes can be merged: the search by
\* rotation misses no neighbour.  The cube cube32_one, for which add_cube does
\* not search, is the exception.
Irredundant ==
  \A c, d \in m_curr_esop \ {cube32_one} : c # d => distance(c, d) >= 2

\* run() returns: the merging loop of add_cube ends.
Terminates == <>(pc = "done")

-----------------------------------------------------------------------------
(* The inductive strengthening. *)

Val == [k \in 0 .. id - 1 |-> FunctionOf(m_esops[k])]

\* The fanins have been prepared from the ESOPs of earlier objects.
FaninsReady ==
  pc \in {"and", "add_cube"} =>
    /\ FunctionOf(m_esop0) = EdgeFunction(Val, aig.ands[GateOf(id)][1])
    /\ FunctionOf(m_esop1) = EdgeFunction(Val, aig.ands[GateOf(id)][2])

\* A gate that is left out because a fanin is 0 has an empty ESOP.
NotYet == \A k \in Ids(aig) : k >= id => m_esops[k] = <<>>

Control == TypeOK /\ WithinBounds
IInv    == Control /\ NotYet /\ FreshForGate /\ FaninsReady /\ ProductKept
=============================================================================
