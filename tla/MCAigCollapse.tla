--------------------------- MODULE MCAigCollapse ---------------------------
(***************************************************************************)
(* Graphs for the collapser: NGates gates whose fanins are two different   *)
(* objects in order, no two gates alike, as structural hashing leaves      *)
(* them, the first over the first two inputs; the last gate is returned as *)
(* it is and complemented.                                                 *)
(***************************************************************************)
EXTENDS AigCollapseInv

CONSTANT NGates

E(k, c) == [id |-> k, cmpl |-> c]

GatesOver(n) == {<<E(j, c), E(k, d)>> : j, k \in 1 .. n, c, d \in BOOLEAN}

Hashed(n) == {g \in GatesOver(n) : g[1].id < g[2].id}

Gates == {b \in [1 .. NGates -> Hashed(GateId(NGates) - 1)] :
            /\ b[1] \in Hashed(2)
            /\ \A k \in 1 .. NGates : /\ b[k] \in Hashed(GateId(k) - 1)
                                      /\ \A j \in 1 .. k - 1 : b[j] # b[k]}

Outs == <<E(GateId(NGates), FALSE), E(GateId(NGates), TRUE), E(0, TRUE)>>

MCAigs == {[ands |-> b, outs |-> Outs] : b \in Gates}
=============================================================================
