------------------------------ MODULE MCPsdkro ------------------------------
(***************************************************************************)
(* Every function of NVars inputs as the first output, then a null pointer *)
(* and the majority of the inputs, under two of the orders.                *)
(***************************************************************************)
EXTENDS Psdkro

Majority == {x \in Points : 2 * Cardinality(x) > NVars}

MCOutputs == {<<{f}, {}, {Majority}>> : f \in SUBSET Points}

Upwards  == [k \in 1 .. NVars |-> k - 1]
MCOrders == {Upwards, Reverse(Upwards)}
=============================================================================
