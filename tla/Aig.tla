-------------------------------- MODULE Aig --------------------------------
(***************************************************************************)
(* And-inverter graphs, as the program reads them from ABC's Gia package.  *)
(* Object 0 is the constant 0, objects 1 .. NVars are the inputs, and the  *)
(* and-gates follow in topological order.                                  *)
(***************************************************************************)
EXTENDS Cube32, Sequences

\* An edge: the object it comes from, and whether it is complemented.
Edge == [id : Nat, cmpl : BOOLEAN]

\* The object number of the k-th gate, and the gate of an object.
GateId(k)   == NVars + k
GateOf(id)  == id - NVars
LastId(aig) == GateId(Len(aig.ands))
Ids(aig)    == 0 .. LastId(aig)

IsAig(aig) ==
  /\ aig \in [ands : Seq(Edge \X Edge), outs : Seq(Edge)]
  /\ \A k \in 1 .. Len(aig.ands), j \in 1 .. 2 : aig.ands[k][j].id < GateId(k)
  /\ \A k \in 1 .. Len(aig.outs) : aig.outs[k].id <= LastId(aig)

-----------------------------------------------------------------------------
(* What a graph computes, given the functions val of its objects. *)

InputFunction(id) == IF id = 0 THEN {} ELSE {x \in Points : id - 1 \in x}

EdgeFunction(val, e) == IF e.cmpl THEN Points \ val[e.id] ELSE val[e.id]

GateFunction(val, gate) ==
  EdgeFunction(val, gate[1]) \cap EdgeFunction(val, gate[2])
=============================================================================
