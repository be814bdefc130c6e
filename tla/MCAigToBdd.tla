----------------------------- MODULE MCAigToBdd -----------------------------
(***************************************************************************)
(* Graphs with two gates and two outputs, with or without what structural  *)
(* hashing would have removed: gates that read the constant.               *)
(***************************************************************************)
EXTENDS AigToBdd

CONSTANT FirstObject   \* the least object that gates and outputs read

E(k, c) == [id |-> k, cmpl |-> c]

Edges(n) == {E(k, c) : k \in FirstObject .. n, c \in BOOLEAN}

Gates == {<<g, h>> : g \in Edges(NVars) \X Edges(NVars),
                     h \in Edges(GateId(1)) \X Edges(GateId(1))}

MCAigs == {[ands |-> b, outs |-> <<E(GateId(2), TRUE), o>>] :
             b \in Gates, o \in {E(0, FALSE), E(0, TRUE), E(GateId(1), TRUE)}}
=============================================================================
