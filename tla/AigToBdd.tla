------------------------------ MODULE AigToBdd ------------------------------
(***************************************************************************)
(* aig_to_bdd (source/xforms/aig_to_bdd.cpp): a BDD is built for every     *)
(* gate of a graph, then one for every output.                             *)
(*                                                                         *)
(* CUDD keeps one node per function, whatever the order of the inputs and  *)
(* the reordering, so that a node is its function here.  An object of      *)
(* class BDD holds a node or, when nothing was assigned to it, none: it is *)
(* a set of at most one function.                                          *)
(***************************************************************************)
EXTENDS Aig

CONSTANT Aigs   \* the graphs that may be given

ASSUME AigsAssumption == \A g \in Aigs : IsAig(g)

VARIABLES
  pc,
  aig,
  id,       \* the object under way
  nodes,    \* the BDDs of the objects
  outputs   \* the BDDs of the outputs computed so far

vars == <<pc, aig, id, nodes, outputs>>

EmptyBdd == {}

\* The operators of class BDD, for operands that hold a node.
Not(b)     == {Points \ f : f \in b}
And2(b, d) == {f \cap g : f \in b, g \in d}

Operand(e) == IF e.cmpl THEN Not(nodes[e.id]) ELSE nodes[e.id]

-----------------------------------------------------------------------------
(* Inputs *)

\* Mutant of InputNodes: the index of an input is taken for its object.
InputNodesByIndex(g) ==
  [k \in Ids(g) |-> IF k < NVars THEN {InputFunction(k + 1)} ELSE EmptyBdd]

\* Only inputs are assigned a node: the constant object keeps its empty BDD.
InputNodes(g) ==
  [k \in Ids(g) |-> IF k \in 1 .. NVars THEN {InputFunction(k)} ELSE EmptyBdd]

-----------------------------------------------------------------------------
(* Gates *)

gate == aig.ands[GateOf(id)]

AtGate == pc = "run" /\ id <= LastId(aig)

\* The operators use the manager of their operands, of which an empty BDD has
\* none: the program ends with a memory fault.
FaultAtGate == \E j \in 1 .. 2 : nodes[gate[j].id] = EmptyBdd

\* Mutant of Gate: the second fanin is never complemented.
GateWithoutC2 ==
  /\ AtGate /\ ~ FaultAtGate
  /\ nodes' = [nodes EXCEPT ![id] = And2(Operand(gate[1]), nodes[gate[2].id])]
  /\ id' = id + 1
  /\ UNCHANGED <<pc, aig, outputs>>

Gate ==
  /\ AtGate /\ ~ FaultAtGate
  /\ nodes' = [nodes EXCEPT ![id] = And2(Operand(gate[1]), Operand(gate[2]))]
  /\ id' = id + 1
  /\ UNCHANGED <<pc, aig, outputs>>

GateFaults ==
  /\ AtGate /\ FaultAtGate
  /\ pc' = "fault"
  /\ UNCHANGED <<aig, id, nodes, outputs>>

-----------------------------------------------------------------------------
(* Outputs *)

out == aig.outs[Len(outputs) + 1]

AtOutput == pc = "run" /\ id > LastId(aig) /\ Len(outputs) < Len(aig.outs)

\* Only the complement needs a node: an output that is the constant 0 is passed
\* on as an empty BDD.
FaultAtOutput == out.cmpl /\ nodes[out.id] = EmptyBdd

Output ==
  /\ AtOutput /\ ~ FaultAtOutput
  /\ outputs' = Append(outputs, Operand(out))
  /\ UNCHANGED <<pc, aig, id, nodes>>

OutputFaults ==
  /\ AtOutput /\ FaultAtOutput
  /\ pc' = "fault"
  /\ UNCHANGED <<aig, id, nodes, outputs>>

Return ==
  /\ pc = "run" /\ id > LastId(aig) /\ Len(outputs) = Len(aig.outs)
  /\ pc' = "done"
  /\ UNCHANGED <<aig, id, nodes, outputs>>

Ended == pc \in {"done", "fault"} /\ UNCHANGED vars

-----------------------------------------------------------------------------
Init ==
  /\ pc = "run"
  /\ aig \in Aigs
  /\ id = GateId(1)
  /\ nodes = InputNodes(aig)
  /\ outputs = <<>>

Next == Gate \/ GateFaults \/ Output \/ OutputFaults \/ Return \/ Ended

Spec     == Init /\ [][Next]_vars
FairSpec == Spec /\ WF_vars(Next)

-----------------------------------------------------------------------------
(* Properties *)

\* The function that collapsing finds for a BDD: extract_esop (bdd/collapse.cpp)
\* returns no cubes for one that holds no node.
FunctionOfBdd(b) == UNION b

\* Type correctness, and what is read is there: the objects before the one under
\* way hold a function each, the inputs their own, while the constant and the
\* objects that follow hold nothing.
TypeOK ==
  /\ pc \in {"run", "done", "fault"}
  /\ IsAig(aig)
  /\ id \in GateId(1) .. LastId(aig) + 1
  /\ nodes \in [Ids(aig) -> SUBSET SUBSET Points]
  /\ \A k \in Ids(aig) : IF k \in 1 .. id - 1
                           THEN \E f \in SUBSET Points : nodes[k] = {f}
                           ELSE nodes[k] = EmptyBdd
  /\ \A k \in 1 .. NVars : nodes[k] = {InputFunction(k)}
  /\ outputs \in Seq(SUBSET SUBSET Points)

Eval == INSTANCE AigEval WITH
  graph   <- aig,
  next    <- id,
  val     <- [k \in 0 .. id - 1 |-> FunctionOfBdd(nodes[k])],
  results <- [k \in 1 .. Len(outputs) |-> FunctionOfBdd(outputs[k])]

\* Whatever graph is given, constant outputs and fanins included, what is built
\* are the functions of its gates and outputs, in order, up to the end or to a
\* memory fault.
Implements == Eval!Spec

\* A graph as structural hashing leaves it: no gate reads the constant.
IsHashed(g) == \A k \in DOMAIN g.ands, j \in 1 .. 2 : g.ands[k][j].id # 0

ConstantOne(e) == e.id = 0 /\ e.cmpl

\* With a hashed graph none of whose outputs is the constant 1, every output
\* gets its BDD: no gate is read before it has one.
CompletesWithoutConstantOne ==
  IsHashed(aig) /\ (\A k \in DOMAIN aig.outs : ~ ConstantOne(aig.outs[k]))
    ~> pc = "done" /\ Len(outputs) = Len(aig.outs)

\* "Any Boolean function can be represented" (kernel/two_lvl32.hpp): a hashed
\* graph is always converted, constant outputs included.
CompletesForAll == IsHashed(aig) ~> pc = "done"
=============================================================================
