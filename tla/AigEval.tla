------------------------------ MODULE AigEval ------------------------------
(***************************************************************************)
(* What collapsing promises: the functions of the gates of a graph are     *)
(* computed one after the other, then those of its outputs.                *)
(***************************************************************************)
EXTENDS Aig

VARIABLES
  graph,
  next,     \* the next object to be computed
  val,      \* the functions of the objects before it
  results   \* the functions of the outputs computed so far

evars == <<graph, next, val, results>>

Init ==
  /\ IsAig(graph)
  /\ next = GateId(1)
  /\ val = [id \in 0 .. NVars |-> InputFunction(id)]
  /\ results = <<>>

Gate ==
  /\ next <= LastId(graph)
  /\ val' = [id \in 0 .. next |->
               IF id = next THEN GateFunction(val, graph.ands[GateOf(next)])
                            ELSE val[id]]
  /\ next' = next + 1
  /\ UNCHANGED <<graph, results>>

Output ==
  /\ next > LastId(graph)
  /\ Len(results) < Len(graph.outs)
  /\ results' = Append(results, EdgeFunction(val, graph.outs[Len(results) + 1]))
  /\ UNCHANGED <<graph, next, val>>

Next == Gate \/ Output

Spec == Init /\ [][Next]_evars
=============================================================================
